---------------------------- MODULE Spec2Model ----------------------------
(***************************************************************************)
(* A model of the discrete-event kernel of ecs_disease_models:             *)
(*   - Event and its reversed ordering        (src/src/timeline_event.rs)  *)
(*   - Timeline: now + BinaryHeap<Event>      (src/src/timeline.rs)        *)
(*   - Model: module registration, tick loop  (src/src/model.rs)           *)
(*                                                                         *)
(* Times are f64 values wrapped in OrderedFloat; the model uses the        *)
(* integer-valued ones 0..MaxTime, on which f64 arithmetic and comparison  *)
(* are exact.  An Option<T> is a sequence of length 0 (None) or 1 (Some).  *)
(***************************************************************************)
EXTENDS Integers, Sequences, FiniteSets, TLC

(* ------------------------------ bounds --------------------------------- *)

\* Largest time value an Event is pushed with or set_now is called with.
MaxTime == 5

\* Number of push calls in one behaviour of the queue specification.
MaxPush == 3

\* Number of pop calls in one behaviour of the queue specification.
MaxPop == 4

\* Number of Events ever created in one behaviour of the API specification.
MaxEvents == 3

\* Number of modules added to a Model after its construction.
MaxModules == 2

\* Number of rounds of Model::run that are followed.
MaxRounds == 3

\* Largest delay after now() a behavior schedules an Event at.
MaxDelay == 1

\* Calls of Model::run on one Model.
MaxRuns == 2

\* POPULATION of basic-infection: the people susceptible at the start.
POPULATION == 2

Times == 0 .. MaxTime

None == << >>

Some(x) == << x >>

VARIABLES
  timeline,   \* the Timeline resource: [now, event_queue]
  hist,       \* queue specification: the calls made so far, with results;
              \* Model: the commands executed in the run, in order
  last,       \* API specification: the last call, [op, arg, ret], and a serial
  control,    \* the ModelControl resource
  rng,        \* the RngResource resource: None, or Some(seed)
  resources,  \* the types of the resources the World holds
  schedule,   \* the systems added to the Schedule, in the order added
  nmodules,   \* the number of modules added after construction
  created,    \* the number of Events created so far
  pc,         \* where Model::run is: setup, First, Normal, Last, check, done
  round,      \* the number of the current round of Model::run
  todo,       \* indices of the systems of the current phase still to run
  commands,   \* the deferred command queue of the current round
  synced,     \* whether the round's deferred commands have been applied
  stats,      \* what the current round has done so far
  world       \* the World outside the kernel and the files around it: the
              \* resources of the reporting modules and the files on disk

tlvars == << timeline, hist, last >>

kvars == << control, rng, resources, schedule, nmodules, created,
            pc, round, todo, commands, synced, stats, world >>

vars == << timeline, hist, last, control, rng, resources, schedule, nmodules,
           created, pc, round, todo, commands, synced, stats, world >>

(* ------------------------- timeline_event.rs --------------------------- *)

\* struct Event { time, command }: the command is a boxed closure, modelled
\* by a value that tells two closures apart.
Event(t, c) == [time |-> t, command |-> c]

\* Ordering::{Less, Equal, Greater} of two times (OrderedFloat<f64>::cmp).
TimeCmp(x, y) == IF x < y THEN "Less" ELSE IF x > y THEN "Greater" ELSE "Equal"

\* A plausible slip: the ordering without Reverse (a max-heap on time).
CmpNotReversed(a, b) == TimeCmp(a.time, b.time)

\* impl Ord for Event: Reverse(self.time).cmp(&Reverse(other.time)),
\* and Reverse(x).cmp(Reverse(y)) is y.cmp(x).
Cmp(a, b) == TimeCmp(b.time, a.time)

\* A plausible slip: a derived PartialEq, which compares the payload too.
EqDerived(a, b) == a = b

\* impl PartialEq for Event: equal times, whatever the payload.
Eq(a, b) == a.time = b.time

\* a <= b through PartialOrd::partial_cmp == Some(cmp).
Le(a, b) == Cmp(a, b) \in {"Less", "Equal"}

(* ------------------ BinaryHeap<Event> (Vec, 0-based) ------------------- *)

\* data[i] for a 0-based index i.
At(data, i) == data[i + 1]

Put(data, i, x) == [data EXCEPT ![i + 1] = x]

\* BinaryHeap::sift_up(start, pos) with the hole's element elt held out.
RECURSIVE SiftUp(_, _, _, _)
SiftUp(data, start, pos, elt) ==
  IF pos > start
  THEN LET parent == (pos - 1) \div 2 IN
       IF Le(elt, At(data, parent))
       THEN Put(data, pos, elt)
       ELSE SiftUp(Put(data, pos, At(data, parent)), start, parent, elt)
  ELSE Put(data, pos, elt)

\* The loop and the tail of BinaryHeap::sift_down_to_bottom: the hole moves to
\* the greater child down to a leaf; the result is <<data, position of hole>>.
RECURSIVE SiftDownHole(_, _, _)
SiftDownHole(data, pos, end) ==
  LET child == 2 * pos + 1
      limit == IF end >= 2 THEN end - 2 ELSE 0   \* end.saturating_sub(2)
  IN IF child <= limit
     THEN LET c == IF Le(At(data, child), At(data, child + 1))
                   THEN child + 1 ELSE child
          IN SiftDownHole(Put(data, pos, At(data, c)), c, end)
     ELSE IF child = end - 1
          THEN << Put(data, pos, At(data, child)), child >>
          ELSE << data, pos >>

SiftDownToBottom(data, pos) ==
  LET elt == At(data, pos)
      r   == SiftDownHole(data, pos, Len(data))
  IN SiftUp(r[1], pos, r[2], elt)

\* A plausible slip: a set-like queue that drops an Event equal (by Eq, so by
\* time alone) to one already pending.
HeapPushDedup(data, item) ==
  IF \E i \in 1 .. Len(data) : Eq(data[i], item)
  THEN data
  ELSE SiftUp(Append(data, item), 0, Len(data), item)

\* A plausible slip: push that appends without restoring the heap order.
HeapPushNoSift(data, item) == Append(data, item)

\* BinaryHeap::push: append, then sift_up(0, old_len).
HeapPush(data, item) == SiftUp(Append(data, item), 0, Len(data), item)

\* A plausible slip: the Vec's pop, which returns the last item of the array.
HeapPopLast(data) ==
  IF Len(data) = 0
  THEN [data |-> data, item |-> None]
  ELSE [data |-> SubSeq(data, 1, Len(data) - 1), item |-> Some(data[Len(data)])]

\* BinaryHeap::pop: take the last item; if items remain, swap it with the root
\* and sift the root down.  The result is [data, item: Option<Event>].
HeapPop(data) ==
  IF Len(data) = 0
  THEN [data |-> data, item |-> None]
  ELSE LET lastItem == data[Len(data)]
           rest     == SubSeq(data, 1, Len(data) - 1)
       IN IF Len(rest) = 0
          THEN [data |-> rest, item |-> Some(lastItem)]
          ELSE [data |-> SiftDownToBottom(Put(rest, 0, lastItem), 0),
                item |-> Some(rest[1])]

(* ----------------------------- timeline.rs ----------------------------- *)

\* impl Default for Timeline.
TimelineDefault == [now |-> 0, event_queue |-> << >>]

\* Timeline::now.
TimelineNow(tl) == tl.now

\* A plausible slip: set_now that returns the new time without storing it.
TimelineSetNowDropped(tl, new_time) == [timeline |-> tl, ret |-> new_time]

\* A plausible slip: set_now that also forgets the pending Events.
TimelineSetNowClears(tl, new_time) ==
  [timeline |-> [now |-> new_time, event_queue |-> << >>], ret |-> new_time]

\* Timeline::set_now: stores and returns new_time.
TimelineSetNow(tl, new_time) ==
  [timeline |-> [tl EXCEPT !.now = new_time], ret |-> new_time]

\* A plausible slip: push that refuses an Event scheduled before now.
TimelinePushChecked(tl, event) ==
  IF event.time < tl.now THEN tl
  ELSE [tl EXCEPT !.event_queue = HeapPush(tl.event_queue, event)]

\* Timeline::push.
TimelinePush(tl, event) ==
  [tl EXCEPT !.event_queue = HeapPush(tl.event_queue, event)]

\* A plausible slip: pop that forgets to advance now.
TimelinePopNoAdvance(tl) ==
  LET p == HeapPop(tl.event_queue)
  IN [timeline |-> [tl EXCEPT !.event_queue = p.data], popped |-> p.item]

\* A plausible slip: pop that resets now when nothing is pending.
TimelinePopResets(tl) ==
  LET p == HeapPop(tl.event_queue)
  IN [timeline |-> [now |-> IF p.item = None THEN 0 ELSE p.item[1].time,
                    event_queue |-> p.data],
      popped |-> p.item]

\* Timeline::pop: pops the heap and, for Some(event), sets now to its time.
TimelinePop(tl) ==
  LET p == HeapPop(tl.event_queue)
  IN [timeline |-> [now |-> IF p.item = None THEN tl.now ELSE p.item[1].time,
                    event_queue |-> p.data],
      popped |-> p.item]

(* ------------------------------ model.rs ------------------------------- *)

\* enum ExecutionPhase, in the order configure_sets enforces.
ExecutionPhase == << "First", "Normal", "Last" >>

\* enum ModelControl.
ModelControl == {"Running", "Paused", "Aborted", "Finished"}

\* #[default] Running.
ModelControlDefault == "Running"

\* A system of the Schedule: its phase (in_set), its function, and for a
\* module's behavior what the behavior does.
System(phase, name, effect) == [phase |-> phase, name |-> name, effect |-> effect]

\* The three systems Model::with_random_seed adds, one to each phase.
PhaseSystems ==
  << System("First", "system_for_first_phase", "none"),
     System("Normal", "system_for_normal_phase", "none"),
     System("Last", "system_for_last_phase", "none") >>

\* The command of an Event: a boxed FnOnce(&mut World).  kind says what the
\* closure does, then what the Event it schedules does, id tells closures apart.
Command(kind, then, id) == [kind |-> kind, then |-> then, id |-> id]

\* A plausible slip: a drain that pops until the queue is empty.
RECURSIVE RunTimelineEventAll(_, _, _)
RunTimelineEventAll(tl, model_control, cmds) ==
  LET r == TimelinePop(tl) IN
  IF r.popped # None
  THEN IF Len(r.timeline.event_queue) = 0
       THEN [timeline |-> r.timeline, model_control |-> model_control,
             commands |-> Append(cmds, r.popped[1].command)]
       ELSE RunTimelineEventAll(r.timeline, model_control,
                                Append(cmds, r.popped[1].command))
  ELSE [timeline |-> r.timeline, model_control |-> "Aborted", commands |-> cmds]

\* A plausible slip: a drain that leaves ModelControl alone when nothing is
\* pending.
RunTimelineEventNoAbort(tl, model_control, cmds) ==
  LET r == TimelinePop(tl) IN
  IF r.popped # None
  THEN [timeline |-> r.timeline, model_control |-> model_control,
        commands |-> Append(cmds, r.popped[1].command)]
  ELSE [timeline |-> r.timeline, model_control |-> model_control,
        commands |-> cmds]

\* A plausible slip: a drain that queues the command of the earliest Event
\* and leaves the Event pending.
RunTimelineEventPeek(tl, model_control, cmds) ==
  LET r == TimelinePop(tl) IN
  IF r.popped # None
  THEN [timeline |-> [r.timeline EXCEPT !.event_queue = tl.event_queue],
        model_control |-> model_control,
        commands |-> Append(cmds, r.popped[1].command)]
  ELSE [timeline |-> r.timeline, model_control |-> "Aborted", commands |-> cmds]

\* A plausible slip: a drain that pops a second Event when one is left.
RunTimelineEventTwo(tl, model_control, cmds) ==
  LET r == TimelinePop(tl) IN
  IF r.popped # None
  THEN LET s == TimelinePop(r.timeline) IN
       IF s.popped # None
       THEN [timeline |-> s.timeline, model_control |-> model_control,
             commands |-> Append(Append(cmds, r.popped[1].command),
                                 s.popped[1].command)]
       ELSE [timeline |-> r.timeline, model_control |-> model_control,
             commands |-> Append(cmds, r.popped[1].command)]
  ELSE [timeline |-> r.timeline, model_control |-> "Aborted", commands |-> cmds]

\* fn run_timeline_event: pops one Event and queues its command, or requests
\* Aborted when nothing is pending.
RunTimelineEvent(tl, model_control, cmds) ==
  LET r == TimelinePop(tl) IN
  IF r.popped # None
  THEN [timeline |-> r.timeline, model_control |-> model_control,
        commands |-> Append(cmds, r.popped[1].command)]
  ELSE [timeline |-> r.timeline, model_control |-> "Aborted", commands |-> cmds]

\* The modules of the library.  A Timeline module is a Timeline value.
TimelineModuleOf(tl) == [type |-> "Timeline", self |-> tl]

TimelineModule == TimelineModuleOf(TimelineDefault)

RngModule(seed) == [type |-> "RngResource", seed |-> seed]

\* A module that, like TransmissionManager, installs itself and schedules its
\* first Event at time 0.0 when initialized, and adds no system.
SchedulerModule(kind, then) ==
  [type |-> "Scheduler", time |-> 0, kind |-> kind, then |-> then]

\* A module that, like InfectionManager and PopulationStatistics, installs
\* itself and adds one behavior to a phase.
BehaviorModule(phase, effect) ==
  [type |-> "Behavior", phase |-> phase, effect |-> effect]

\* A plausible slip: the Timeline module installing the value it is.
TimelineInitializeWithWorldSelf(self, m) ==
  [world |-> [m EXCEPT !.timeline = self,
                       !.resources = @ \cup {"Timeline"}],
   systems |-> Some(System("Normal", "run_timeline_event", "none"))]

\* impl Module for Timeline: inserts Timeline::default(), whatever self is,
\* and returns the drain behavior in the Normal phase.
TimelineInitializeWithWorld(self, m) ==
  [world |-> [m EXCEPT !.timeline = TimelineDefault,
                       !.resources = @ \cup {"Timeline"}],
   systems |-> Some(System("Normal", "run_timeline_event", "none"))]

\* Module::initialize_with_world of each module: the world after it and the
\* systems it returns (Option<SystemConfigs>).
InitializeWithWorld(module, m) ==
  CASE module.type = "Timeline" ->
         TimelineInitializeWithWorld(module.self, m)
    [] module.type = "RngResource" ->
         [world |-> [m EXCEPT !.rng = Some(module.seed),
                              !.resources = @ \cup {"RngResource"}],
          systems |-> None]
    [] module.type = "Scheduler" ->
         [world |-> [m EXCEPT
                       !.timeline = TimelinePush(m.timeline,
                                      Event(module.time,
                                            Command(module.kind, module.then,
                                                    m.created + 1))),
                       !.created = @ + 1,
                       !.resources = @ \cup {"Scheduler"}],
          systems |-> None]
    [] module.type = "Behavior" ->
         [world |-> [m EXCEPT !.resources = @ \cup {"Behavior"}],
          systems |-> Some(System(module.phase, "behavior", module.effect))]

\* Model::add_module.
AddModule(m, module) ==
  LET r == InitializeWithWorld(module, m) IN
  IF r.systems # None
  THEN [r.world EXCEPT !.schedule = Append(@, r.systems[1])]
  ELSE r.world

\* A plausible slip: a construction that leaves the RNG module to the caller.
WithRandomSeedNoRng(seed) ==
  LET model == [control   |-> ModelControlDefault,
                timeline  |-> None,
                rng       |-> None,
                resources |-> {"ModelControl"},
                schedule  |-> PhaseSystems,
                created   |-> 0]
  IN AddModule(model, TimelineModule)

\* Model::with_random_seed.
WithRandomSeed(seed) ==
  LET model == [control   |-> ModelControlDefault,
                timeline  |-> None,
                rng       |-> None,
                resources |-> {"ModelControl"},
                schedule  |-> PhaseSystems,
                created   |-> 0]
  IN AddModule(AddModule(model, TimelineModule), RngModule(seed))

\* Model::new.
ModelNew == WithRandomSeed(42)

(* ------------- queue specification: push and pop calls ----------------- *)

\* What a round has done so far: the number of Events pending when its Normal
\* phase started (-1 before), the number pending at each run of a drain, the
\* Events the drains popped, [id, now, command] of each command executed, the
\* systems that have run, and who wrote which value to ModelControl.
NoStats ==
  [pending |-> -1, seen |-> << >>, popped |-> << >>, executed |-> << >>,
   ran |-> {}, writes |-> {}]

\* The kernel's part of the World and the Schedule are those of model m,
\* Model::run being at p.
ModelIs(m, p) ==
  /\ control = m.control
  /\ rng = m.rng
  /\ resources = m.resources
  /\ schedule = m.schedule
  /\ created = m.created
  /\ nmodules = 0
  /\ pc = p
  /\ round = 0
  /\ todo = {}
  /\ commands = << >>
  /\ synced = FALSE
  /\ stats = NoStats

\* A World that holds no resource of a reporting or loading module, no
\* people, and around it the current directory with no file in it.
NoWorld ==
  [configuration |-> None, reporters |-> {}, parameters |-> None,
   population |-> None, files |-> {}, dirs |-> {"."}, locked |-> {}]

\* The state of the World and the Schedule of model m, Model::run being at p.
KernelIs(m, p) ==
  /\ world = NoWorld
  /\ ModelIs(m, p)

\* One entry of hist: the call, its argument, its result and now() on return.
Call(op, arg, ret, tl) == [op |-> op, arg |-> arg, ret |-> ret, now |-> TimelineNow(tl)]

NumCalls(h, op) == Cardinality({i \in 1 .. Len(h) : h[i].op = op})

QInit ==
  /\ timeline = TimelineDefault
  /\ hist = << >>
  /\ last = [op |-> "init", arg |-> None, ret |-> None, serial |-> 0]
  /\ KernelIs(ModelNew, "idle")

\* timeline.push(Event { time: t, command }) with a fresh command.
QPush ==
  /\ NumCalls(hist, "push") < MaxPush
  /\ \E t \in Times :
       LET e == Event(t, NumCalls(hist, "push") + 1) IN
       /\ timeline' = TimelinePush(timeline, e)
       /\ hist' = Append(hist, Call("push", Some(e), None, timeline'))
  /\ UNCHANGED << last, kvars >>

\* timeline.pop().
QPop ==
  /\ NumCalls(hist, "pop") < MaxPop
  /\ LET r == TimelinePop(timeline) IN
       /\ timeline' = r.timeline
       /\ hist' = Append(hist, Call("pop", None, r.popped, r.timeline))
  /\ UNCHANGED << last, kvars >>

QNext == QPush \/ QPop

SpecQueue == QInit /\ [][QNext]_vars

\* The Events pending in a heap, as a set (commands tell Events apart).
Pending(tl) == {tl.event_queue[i] : i \in 1 .. Len(tl.event_queue)}

\* Indices of hist at which a pop returned an Event.
Pops(h) == {i \in 1 .. Len(h) : h[i].op = "pop" /\ h[i].ret # None}

Pushes(h) == {i \in 1 .. Len(h) : h[i].op = "push"}

LastCall(h) == h[Len(h)]

\* The step just taken was a pop call.
PopStep == Len(hist') = Len(hist) + 1 /\ LastCall(hist').op = "pop"

(* ------------------------------ C1 .. C7 ------------------------------- *)

\* C1: immediately after each pop that returns an Event, now() equals the
\* time of the Event just returned.
C1_NowIsPoppedTime ==
  (Len(hist) > 0 /\ LastCall(hist).op = "pop" /\ LastCall(hist).ret # None)
    => TimelineNow(timeline) = LastCall(hist).ret[1].time

\* A pop has just returned an Event whose time differs from the time before.
C1_Witness ==
  /\ Len(hist) > 1
  /\ LastCall(hist).op = "pop"
  /\ LastCall(hist).ret # None
  /\ LastCall(hist).ret[1].time # hist[Len(hist) - 1].now

\* C2: over every sequence of push and pop calls, with pushes of any time
\* value, now() never decreases.
C2_NowMonotone ==
  \A i, j \in 1 .. Len(hist) : i < j => hist[i].now <= hist[j].now

\* C3: a pop on a non-empty queue removes exactly one Event, and the Event it
\* returns has a time <= the time of every Event pending at the call.
C3_PopRemovesMinimum ==
  [][(PopStep /\ Len(timeline.event_queue) > 0) =>
       LET r == LastCall(hist').ret IN
       /\ r # None
       /\ r[1] \in Pending(timeline)
       /\ \A e \in Pending(timeline) : r[1].time <= e.time
       /\ Pending(timeline') = Pending(timeline) \ {r[1]}
       /\ Len(timeline'.event_queue) = Len(timeline.event_queue) - 1]_tlvars

\* A pop has just returned an Event out of three pending with distinct times.
C3_Witness ==
  /\ Len(hist) > 0
  /\ LastCall(hist).op = "pop"
  /\ LastCall(hist).ret # None
  /\ Len(timeline.event_queue) = 2
  /\ \A e \in Pending(timeline) : e.time > LastCall(hist).ret[1].time
  /\ \E e, f \in Pending(timeline) : e.time # f.time

\* C4: of two Events A and B with A.time < B.time, pushed in either order and
\* both pushed by the time B is popped, A is popped strictly before B.
C4_TimeOrder ==
  \A j \in Pops(hist) : \A i \in Pushes(hist) :
    (i < j /\ hist[i].arg[1].time < hist[j].ret[1].time)
      => \E k \in Pops(hist) : k < j /\ hist[k].ret = hist[i].arg

\* B was pushed before A, A.time < B.time, and both have been popped.
C4_Witness ==
  \E ib, ia \in Pushes(hist) : \E ja, jb \in Pops(hist) :
    /\ ib < ia /\ ia < ja /\ ja < jb
    /\ hist[ia].arg[1].time < hist[ib].arg[1].time
    /\ hist[ja].ret = hist[ia].arg
    /\ hist[jb].ret = hist[ib].arg

\* C5: a pop on an empty queue returns None and leaves now() and the (empty)
\* pending set unchanged.
C5_PopEmpty ==
  [][(PopStep /\ Len(timeline.event_queue) = 0) =>
       /\ LastCall(hist').ret = None
       /\ TimelineNow(timeline') = TimelineNow(timeline)
       /\ timeline'.event_queue = << >>]_tlvars

\* A pop has just returned None with now() advanced by an earlier pop.
C5_Witness ==
  /\ Len(hist) > 0
  /\ LastCall(hist).op = "pop"
  /\ LastCall(hist).ret = None
  /\ TimelineNow(timeline) > 0

\* C6: two Events pushed with equal times are neither lost nor merged: each
\* is pending or was returned by exactly one pop, and once the queue is
\* empty both have been returned.
C6_EqualTimesBothPop ==
  \A i, j \in Pushes(hist) :
    (i < j /\ hist[i].arg[1].time = hist[j].arg[1].time) =>
      \A x \in {i, j} :
        LET e    == hist[x].arg[1]
            rets == {k \in Pops(hist) : hist[k].ret[1] = e}
        IN /\ (e \in Pending(timeline)) <=> (rets = {})
           /\ Cardinality(rets) <= 1
           /\ \A k \in rets : k > x
           /\ Cardinality({p \in 1 .. Len(timeline.event_queue) :
                             timeline.event_queue[p] = e}) <= 1

\* Two Events pushed with equal times have both been returned by pops.
C6_Witness ==
  \E i, j \in Pushes(hist) : \E k, l \in Pops(hist) :
    /\ i < j /\ k # l
    /\ hist[i].arg[1].time = hist[j].arg[1].time
    /\ hist[k].ret = hist[i].arg
    /\ hist[l].ret = hist[j].arg

\* The calls of the scenario: push at 5, 1, 3, then pops.
ScenarioOps == << "push", "push", "push", "pop", "pop", "pop", "pop" >>

ScenarioPushTimes == << 5, 1, 3 >>

\* Expected result time of each pop (-1: None) and now() after it.
ScenarioPopTimes == << 1, 3, 5, -1 >>

ScenarioNows == << 1, 3, 5, 5 >>

InScenario ==
  /\ Len(hist) <= 7
  /\ \A i \in 1 .. Len(hist) : hist[i].op = ScenarioOps[i]
  /\ \A i \in 1 .. Len(hist) : i <= 3 => hist[i].arg[1].time = ScenarioPushTimes[i]

\* C7: from a default Timeline, pushes at 5, 1, 3 followed by four pops give
\* Events at 1, 3, 5 with now() = 1, 3, 5, then None with now() still 5.
C7_Scenario ==
  InScenario =>
    \A i \in 4 .. Len(hist) :
      /\ hist[i].now = ScenarioNows[i - 3]
      /\ IF ScenarioPopTimes[i - 3] = -1
         THEN hist[i].ret = None
         ELSE hist[i].ret # None /\ hist[i].ret[1].time = ScenarioPopTimes[i - 3]

\* The whole scenario has run: three pushes and four pops.
C7_Witness == InScenario /\ Len(hist) = 7

(* --------- API specification: push, pop and set_now calls -------------- *)

\* The value of last after a call; serial counts the Events created so far.
LastIs(op, arg, ret, serial) == [op |-> op, arg |-> arg, ret |-> ret, serial |-> serial]

TInit ==
  /\ timeline = TimelineDefault
  /\ hist = << >>
  /\ last = LastIs("init", None, None, 0)
  /\ KernelIs(ModelNew, "idle")

\* timeline.push(Event { time: t, command }) with a fresh command.
Push ==
  /\ last.serial < MaxEvents
  /\ \E t \in Times :
       LET e == Event(t, last.serial + 1) IN
       /\ timeline' = TimelinePush(timeline, e)
       /\ last' = LastIs("push", Some(e), None, last.serial + 1)
  /\ UNCHANGED << hist, kvars >>

\* timeline.pop().
Pop ==
  /\ LET r == TimelinePop(timeline) IN
       /\ timeline' = r.timeline
       /\ last' = LastIs("pop", None, r.popped, last.serial)
  /\ UNCHANGED << hist, kvars >>

\* timeline.set_now(t).
SetNow ==
  /\ \E t \in Times :
       LET r == TimelineSetNow(timeline, t) IN
       /\ timeline' = r.timeline
       /\ last' = LastIs("set_now", Some(t), Some(r.ret), last.serial)
  /\ UNCHANGED << hist, kvars >>

TNext == Push \/ Pop \/ SetNow

SpecTimeline == TInit /\ [][TNext]_vars

(* ------------------------------ C8, C9 --------------------------------- *)

\* C8: no public operation of Timeline other than a pop that returns an
\* Event changes the value returned by now().
C8_OnlyPopMovesNow ==
  [][TimelineNow(timeline') # TimelineNow(timeline)
       => (last'.op = "pop" /\ last'.ret # None)]_tlvars

\* C9: a default Timeline has now() = 0; set_now(t) returns t, leaves the
\* pending Events as they are and makes now() return t, and now() keeps its
\* value over every call that is neither a set_now nor a pop returning an Event.
C9_SetNow ==
  /\ TimelineNow(timeline) = 0
  /\ [][/\ last'.op = "set_now" =>
             /\ last'.ret = last'.arg
             /\ TimelineNow(timeline') = last'.arg[1]
             /\ timeline'.event_queue = timeline.event_queue
        /\ (last'.op = "push" \/ (last'.op = "pop" /\ last'.ret = None)) =>
             TimelineNow(timeline') = TimelineNow(timeline)]_tlvars

\* set_now(3) was called with Events pending, and a push followed it: now()
\* is still 3 and more than one Event is pending.
C9_Witness ==
  /\ last.op = "push"
  /\ TimelineNow(timeline) = 3
  /\ Len(timeline.event_queue) > 1
  /\ \A e \in Pending(timeline) : e.time # 3

(* -------------------------------- C21 ---------------------------------- *)

\* A step that is a call of push: only push takes a new serial.
PushStep == last'.serial = last.serial + 1

\* C21: push has no ordering precondition: for any Event, one with
\* time < now() included, push adds exactly that Event to the pending Events
\* (one more is pending, the others are the same) and leaves now() as it is.
C21_PushAnyTime ==
  [][PushStep =>
       LET e == last'.arg[1] IN
       /\ last'.op = "push"
       /\ e \notin Pending(timeline)
       /\ Pending(timeline') = Pending(timeline) \cup {e}
       /\ Len(timeline'.event_queue) = Len(timeline.event_queue) + 1
       /\ TimelineNow(timeline') = TimelineNow(timeline)]_tlvars

\* A pop moved now() to 2 and then an Event at time 1 was pushed: it is
\* pending, behind now().
C21_Witness ==
  /\ last.op = "push"
  /\ last.arg[1].time = 1
  /\ TimelineNow(timeline) = 2
  /\ last.arg[1] \in Pending(timeline)
  /\ \A e \in Pending(timeline) : e.time < 2

(* ------------ specification of a Timeline with a count of calls ------- *)

\* An entry of the count: a push, or a pop that returned an Event.
Counted(op, ret) == [op |-> op, ret |-> ret]

\* A default Timeline, nothing counted yet.
CountInit ==
  /\ timeline = TimelineDefault
  /\ hist = << >>
  /\ last = LastIs("init", None, None, 0)
  /\ KernelIs(ModelNew, "idle")

\* timeline.push(Event { time: t, command }) with a fresh command.
PushCounted ==
  /\ last.serial < MaxEvents
  /\ \E t \in Times :
       LET e == Event(t, last.serial + 1) IN
       /\ timeline' = TimelinePush(timeline, e)
       /\ last' = LastIs("push", Some(e), None, last.serial + 1)
  /\ hist' = Append(hist, Counted("push", None))
  /\ UNCHANGED kvars

\* timeline.pop(): counted when it returns an Event.
PopCounted ==
  /\ LET r == TimelinePop(timeline) IN
       /\ timeline' = r.timeline
       /\ last' = LastIs("pop", None, r.popped, last.serial)
       /\ hist' = IF r.popped = None THEN hist
                  ELSE Append(hist, Counted("pop", r.popped))
  /\ UNCHANGED kvars

\* timeline.set_now(t).
SetNowCounted ==
  /\ \E t \in Times :
       LET r == TimelineSetNow(timeline, t) IN
       /\ timeline' = r.timeline
       /\ last' = LastIs("set_now", Some(t), Some(r.ret), last.serial)
  /\ UNCHANGED << hist, kvars >>

\* timeline.now(): takes &self.
NowCounted ==
  /\ last' = LastIs("now", None, Some(TimelineNow(timeline)), last.serial)
  /\ UNCHANGED << timeline, hist, kvars >>

CountNext == PushCounted \/ PopCounted \/ SetNowCounted \/ NowCounted

SpecCount == CountInit /\ [][CountNext]_vars

(* -------------------------------- C28 ---------------------------------- *)

\* C28: pending Events are conserved: the number pending is the number of
\* pushes minus the number of pops that returned an Event; a step after which
\* an Event that was pending is pending no more is a pop that returned that
\* Event; now() and set_now leave the pending Events as they are.
C28_Conserved ==
  /\ [](Len(timeline.event_queue)
          = NumCalls(hist, "push") - Cardinality(Pops(hist)))
  /\ [][/\ Pending(timeline) \ Pending(timeline') # {} =>
             /\ last'.op = "pop"
             /\ last'.ret # None
             /\ Pending(timeline) \ Pending(timeline') = {last'.ret[1]}
        /\ last'.op \in {"now", "set_now"} =>
             timeline'.event_queue = timeline.event_queue]_tlvars

\* Three pushes and two pops that returned an Event, then a set_now: one
\* Event is pending.
C28_Witness ==
  /\ last.op = "set_now"
  /\ NumCalls(hist, "push") = 3
  /\ Cardinality(Pops(hist)) = 2
  /\ Len(timeline.event_queue) = 1

(* --------------- specification of the comparison of Events ------------- *)

\* The Events compared: every time, with closures that can be told apart.
ComparedEvents == {Event(t, c) : t \in Times, c \in 1 .. MaxEvents}

\* Three Events a, b, c to compare.
CompareInit ==
  /\ timeline = TimelineDefault
  /\ hist = << >>
  /\ \E a \in ComparedEvents, b \in ComparedEvents, c \in ComparedEvents :
       last = LastIs("init", << a, b, c >>, None, 0)
  /\ KernelIs(ModelNew, "idle")

\* a == b, and a.cmp(&b), b.cmp(&a), b.cmp(&c), a.cmp(&c).
Compare ==
  /\ last.op = "init"
  /\ LET a == last.arg[1]
         b == last.arg[2]
         c == last.arg[3]
     IN last' = LastIs("cmp", last.arg,
                       Some([eq_ab |-> Eq(a, b), eq_ba |-> Eq(b, a),
                             cmp_ab |-> Cmp(a, b), cmp_ba |-> Cmp(b, a),
                             cmp_bc |-> Cmp(b, c), cmp_ac |-> Cmp(a, c)]),
                       1)
  /\ UNCHANGED << timeline, hist, kvars >>

CompareNext == Compare

SpecCompare == CompareInit /\ [][CompareNext]_vars

(* -------------------------------- C29 ---------------------------------- *)

\* C29: the comparison of Events depends on time only: a == b exactly when
\* the times are equal, whatever the actions; a.cmp(b) is the reverse of the
\* comparison of the times (Less iff a.time > b.time, Greater iff
\* a.time < b.time, Equal iff the times are equal); hence the order is total,
\* antisymmetric up to equality of times, transitive, and Equal exactly when
\* a == b.
C29_TimeOnly ==
  last.op = "cmp" =>
    LET a == last.arg[1]
        b == last.arg[2]
        r == last.ret[1]
    IN /\ r.eq_ab = (a.time = b.time)
       /\ r.eq_ba = r.eq_ab
       /\ (r.cmp_ab = "Less") = (a.time > b.time)
       /\ (r.cmp_ab = "Greater") = (a.time < b.time)
       /\ (r.cmp_ab = "Equal") = (a.time = b.time)
       /\ (r.cmp_ab = "Less") = (r.cmp_ba = "Greater")
       /\ (r.cmp_ab = "Equal") = (r.cmp_ba = "Equal")
       /\ (r.cmp_ab # "Greater" /\ r.cmp_ba # "Greater") => r.eq_ab
       /\ (r.cmp_ab # "Greater" /\ r.cmp_bc # "Greater") =>
            r.cmp_ac # "Greater"
       /\ (r.cmp_ab = "Less" /\ r.cmp_bc # "Greater") => r.cmp_ac = "Less"
       /\ (r.cmp_ab # "Greater" /\ r.cmp_bc = "Less") => r.cmp_ac = "Less"
       /\ r.eq_ab = (r.cmp_ab = "Equal")

\* Two Events at time 2 with different actions were compared, and with a
\* third at time 4: the two are equal, and both are Greater than the third.
C29_Witness ==
  /\ last.op = "cmp"
  /\ last.arg[1].time = 2
  /\ last.arg[2].time = 2
  /\ last.arg[1].command # last.arg[2].command
  /\ last.arg[3].time = 4
  /\ last.ret[1].eq_ab
  /\ last.ret[1].cmp_ab = "Equal"
  /\ last.ret[1].cmp_ac = "Greater"

(* ------------- specification of a Model: setup and run ----------------- *)

\* Seeds a Model is constructed with: Model::new's and basic-infection's.
Seeds == {42, 123}

\* What the command of a scheduled Event does: nothing, set ModelControl to
\* Finished, or schedule one more Event at now() + 1.
CommandKinds == {"noop", "finish", "schedule"}

\* What a module's behavior does when it runs: schedule an Event, or write
\* ModelControl.
Effects == {"push", "control"}

\* The modules a caller adds to a constructed Model.
UserModules ==
  {TimelineModule}
    \cup {SchedulerModule(k, "noop") : k \in CommandKinds}
    \cup {SchedulerModule("schedule", "finish")}
    \cup {BehaviorModule(ph, ef) :
            ph \in {"First", "Normal", "Last"}, ef \in Effects}

\* The Model held in the variables.
CurrentModel ==
  [control |-> control, timeline |-> timeline, rng |-> rng,
   resources |-> resources, schedule |-> schedule, created |-> created]

\* The variables hold Model m after the step.
ModelBecomes(m) ==
  /\ control' = m.control
  /\ timeline' = m.timeline
  /\ rng' = m.rng
  /\ resources' = m.resources
  /\ schedule' = m.schedule
  /\ created' = m.created

\* A plausible slip: a Schedule whose sets are not ordered (configure_sets
\* left out), every system being free to run from the start of the round.
SystemsInUnordered(phase) ==
  IF phase = "First" THEN 1 .. Len(schedule) ELSE {}

\* Indices of the systems of a phase.
SystemsIn(phase) == {i \in 1 .. Len(schedule) : schedule[i].phase = phase}

NumDrains ==
  Cardinality({i \in 1 .. Len(schedule) : schedule[i].name = "run_timeline_event"})

\* The state after Model::with_random_seed(seed).
Init ==
  /\ \E seed \in Seeds :
       LET m == WithRandomSeed(seed) IN
       /\ timeline = m.timeline
       /\ KernelIs(m, "setup")
  /\ hist = << >>
  /\ last = LastIs("init", None, None, 0)

\* model.add_module(module), before model.run().
AddUserModule ==
  /\ pc = "setup"
  /\ nmodules < MaxModules
  /\ \E module \in UserModules :
       /\ module.type = "Scheduler" => created < MaxEvents
       /\ ModelBecomes(AddModule(CurrentModel, module))
  /\ nmodules' = nmodules + 1
  /\ UNCHANGED << hist, last, pc, round, todo, commands, synced, stats >>
  /\ UNCHANGED world

\* schedule.run(&mut world) starts round n with its First phase.
BeginRound(n) ==
  /\ pc' = "First"
  /\ round' = n
  /\ todo' = SystemsIn("First")
  /\ commands' = << >>
  /\ synced' = FALSE
  /\ stats' = NoStats

\* model.run(): the loop is entered.
Run ==
  /\ pc = "setup"
  /\ BeginRound(1)
  /\ UNCHANGED << timeline, hist, last, control, rng, resources, schedule,
                  nmodules, created >>
  /\ UNCHANGED world

InPhase == pc \in {"First", "Normal", "Last"}

PhaseSystemNames ==
  {"system_for_first_phase", "system_for_normal_phase", "system_for_last_phase"}

\* The phase's empty system has run.  It reads and writes nothing, so where
\* it runs among the systems of its phase cannot be observed: it is taken
\* to run first.
NoPhaseSystem == \A i \in todo : schedule[i].name \notin PhaseSystemNames

\* system_for_first_phase, system_for_normal_phase, system_for_last_phase.
PhaseSystem ==
  /\ InPhase
  /\ \E i \in todo :
       /\ schedule[i].name \in PhaseSystemNames
       /\ todo' = todo \ {i}
       /\ stats' = [stats EXCEPT !.ran = @ \cup {i}]
  /\ UNCHANGED << timeline, hist, last, control, rng, resources, schedule,
                  nmodules, created, pc, round, commands, synced >>
  /\ UNCHANGED world

\* The drain behavior run_timeline_event runs.
Drain ==
  /\ InPhase
  /\ \E i \in todo :
       /\ schedule[i].name = "run_timeline_event"
       /\ NoPhaseSystem
       /\ todo' = todo \ {i}
       /\ LET r == RunTimelineEvent(timeline, control, commands)
              p == HeapPop(timeline.event_queue).item
          IN /\ timeline' = r.timeline
             /\ control' = r.model_control
             /\ commands' = r.commands
             /\ stats' = [stats EXCEPT
                            !.seen = Append(@, Len(timeline.event_queue)),
                            !.popped = @ \o p,
                            !.ran = @ \cup {i},
                            !.writes = IF p = None
                                       THEN @ \cup {<< "drain", "Aborted" >>}
                                       ELSE @]
  /\ UNCHANGED << hist, last, rng, resources, schedule, nmodules, created,
                  pc, round, synced >>
  /\ UNCHANGED world

\* A behavior that schedules Events runs (as schedule_recovery does for each
\* new infection): it pushes an Event at now() + d, or finds nothing to do.
BehaviorPush ==
  /\ InPhase
  /\ \E i \in todo :
       /\ schedule[i].name = "behavior"
       /\ schedule[i].effect = "push"
       /\ NoPhaseSystem
       /\ todo' = todo \ {i}
       /\ \/ /\ created < MaxEvents
             /\ \E d \in 0 .. MaxDelay :
                  /\ TimelineNow(timeline) + d <= MaxTime
                  /\ timeline' = TimelinePush(timeline,
                                   Event(TimelineNow(timeline) + d,
                                         Command("noop", "noop", created + 1)))
             /\ created' = created + 1
          \/ UNCHANGED << timeline, created >>
       /\ stats' = [stats EXCEPT !.ran = @ \cup {i}]
  /\ UNCHANGED << hist, last, control, rng, resources, schedule, nmodules,
                  pc, round, commands, synced >>
  /\ UNCHANGED world

\* A behavior that writes ModelControl runs (as track_population_changes does
\* when everybody has recovered): it requests a stop, or finds nothing to do.
BehaviorControl ==
  /\ InPhase
  /\ \E i \in todo :
       /\ schedule[i].name = "behavior"
       /\ schedule[i].effect = "control"
       /\ NoPhaseSystem
       /\ todo' = todo \ {i}
       /\ \/ \E request \in {"Paused", "Aborted", "Finished"} :
                /\ control' = request
                /\ stats' = [stats EXCEPT
                               !.ran = @ \cup {i},
                               !.writes = @ \cup {<< "behavior", request >>}]
          \/ /\ UNCHANGED control
             /\ stats' = [stats EXCEPT !.ran = @ \cup {i}]
  /\ UNCHANGED << timeline, hist, last, rng, resources, schedule, nmodules,
                  created, pc, round, commands, synced >>
  /\ UNCHANGED world

\* A plausible slip: a command that is recorded as run, its closure never
\* being called.
ApplyCommandNotCalled(w, c) ==
  [w EXCEPT !.executed =
     Append(@, [id |-> c.id, now |-> TimelineNow(w.timeline), command |-> c])]

\* A command runs with exclusive access to the world w = [timeline, control,
\* created, executed].
ApplyCommand(w, c) ==
  LET done == [w EXCEPT !.executed =
                 Append(@, [id |-> c.id, now |-> TimelineNow(w.timeline),
                            command |-> c])]
  IN CASE c.kind = "noop" -> done
       [] c.kind = "finish" -> [done EXCEPT !.control = "Finished"]
       [] c.kind = "schedule" ->
            [done EXCEPT
               !.timeline = TimelinePush(w.timeline,
                              Event(TimelineNow(w.timeline) + 1,
                                    Command(c.then, "noop", w.created + 1))),
               !.created = @ + 1]

\* The commands of a queue run in the order queued.
RECURSIVE ApplyCommands(_, _)
ApplyCommands(w, cmds) ==
  IF cmds = << >> THEN w
  ELSE ApplyCommands(ApplyCommand(w, Head(cmds)), Tail(cmds))

\* The Events the queued commands will create.
NumScheduling(cmds) ==
  Cardinality({i \in 1 .. Len(cmds) : cmds[i].kind = "schedule"})

\* The sync point between the drain behaviors and the Last phase: the
\* deferred commands are applied to the world.
ApplyDeferred ==
  /\ pc = "Normal"
  /\ ~synced
  /\ NoPhaseSystem
  /\ \A i \in todo : schedule[i].name # "run_timeline_event"
  /\ created + NumScheduling(commands) <= MaxEvents
  /\ NumScheduling(commands) > 0 => TimelineNow(timeline) + 1 <= MaxTime
  /\ LET w == ApplyCommands([timeline |-> timeline, control |-> control,
                             created |-> created, executed |-> stats.executed],
                            commands)
     IN /\ timeline' = w.timeline
        /\ control' = w.control
        /\ created' = w.created
        /\ stats' = [stats EXCEPT
                       !.executed = w.executed,
                       !.writes = IF \E i \in 1 .. Len(commands) :
                                       commands[i].kind = "finish"
                                  THEN @ \cup {<< "command", "Finished" >>}
                                  ELSE @]
        /\ hist' = hist \o
                     [i \in 1 .. Len(w.executed) - Len(stats.executed) |->
                        [command |-> w.executed[Len(stats.executed) + i].command]]
  /\ commands' = << >>
  /\ synced' = TRUE
  /\ UNCHANGED << last, rng, resources, schedule, nmodules, pc, round, todo >>
  /\ UNCHANGED world

\* A plausible slip: a round that is cut short, the Last phase being skipped
\* once a stop has been requested.
NextPhaseSkipsLast ==
  /\ InPhase
  /\ todo = {}
  /\ \/ /\ pc = "First"
        /\ pc' = "Normal"
        /\ todo' = SystemsIn("Normal")
        /\ stats' = [stats EXCEPT !.pending = Len(timeline.event_queue)]
     \/ /\ pc = "Normal"
        /\ synced
        /\ IF control = "Running"
           THEN pc' = "Last" /\ todo' = SystemsIn("Last")
           ELSE pc' = "check" /\ todo' = {}
        /\ UNCHANGED stats
     \/ /\ pc = "Last"
        /\ pc' = "check"
        /\ UNCHANGED << todo, stats >>
  /\ UNCHANGED << timeline, hist, last, control, rng, resources, schedule,
                  nmodules, created, round, commands, synced >>
  /\ UNCHANGED world

\* A plausible slip: a Schedule without the sync point, the Last phase
\* starting with the commands still queued.
NextPhaseNoSync ==
  /\ InPhase
  /\ todo = {}
  /\ \/ /\ pc = "First"
        /\ pc' = "Normal"
        /\ todo' = SystemsIn("Normal")
        /\ stats' = [stats EXCEPT !.pending = Len(timeline.event_queue)]
     \/ /\ pc = "Normal"
        /\ pc' = "Last"
        /\ todo' = SystemsIn("Last")
        /\ UNCHANGED stats
     \/ /\ pc = "Last"
        /\ pc' = "check"
        /\ UNCHANGED << todo, stats >>
  /\ UNCHANGED << timeline, hist, last, control, rng, resources, schedule,
                  nmodules, created, round, commands, synced >>
  /\ UNCHANGED world

\* Every system of the phase has run: the next phase starts.
NextPhase ==
  /\ InPhase
  /\ todo = {}
  /\ \/ /\ pc = "First"
        /\ pc' = "Normal"
        /\ todo' = SystemsIn("Normal")
        /\ stats' = [stats EXCEPT !.pending = Len(timeline.event_queue)]
     \/ /\ pc = "Normal"
        /\ synced
        /\ pc' = "Last"
        /\ todo' = SystemsIn("Last")
        /\ UNCHANGED stats
     \/ /\ pc = "Last"
        /\ pc' = "check"
        /\ UNCHANGED << todo, stats >>
  /\ UNCHANGED << timeline, hist, last, control, rng, resources, schedule,
                  nmodules, created, round, commands, synced >>
  /\ UNCHANGED world

\* A plausible slip: a loop that breaks on Aborted and Finished only, and
\* goes on with the next round when paused.
CheckControlPausedGoesOn ==
  /\ pc = "check"
  /\ \/ /\ control \in {"Aborted", "Finished"}
        /\ pc' = "done"
        /\ UNCHANGED << round, todo, commands, synced, stats >>
     \/ /\ control \in {"Running", "Paused"}
        /\ round < MaxRounds
        /\ BeginRound(round + 1)
  /\ UNCHANGED << timeline, hist, last, control, rng, resources, schedule,
                  nmodules, created >>
  /\ UNCHANGED world

\* A plausible slip: a loop that takes Aborted for a round without work and
\* goes on.
CheckControlAbortedGoesOn ==
  /\ pc = "check"
  /\ \/ /\ control \in {"Paused", "Finished"}
        /\ pc' = "done"
        /\ UNCHANGED << round, todo, commands, synced, stats >>
     \/ /\ control \in {"Running", "Aborted"}
        /\ round < MaxRounds
        /\ BeginRound(round + 1)
  /\ UNCHANGED << timeline, hist, last, control, rng, resources, schedule,
                  nmodules, created >>
  /\ UNCHANGED world

\* The match on ModelControl after schedule.run: break, or loop.
CheckControl ==
  /\ pc = "check"
  /\ \/ /\ control \in {"Paused", "Aborted", "Finished"}
        /\ pc' = "done"
        /\ UNCHANGED << round, todo, commands, synced, stats >>
     \/ /\ control = "Running"
        /\ round < MaxRounds
        /\ BeginRound(round + 1)
  /\ UNCHANGED << timeline, hist, last, control, rng, resources, schedule,
                  nmodules, created >>
  /\ UNCHANGED world

Next ==
  \/ AddUserModule
  \/ Run
  \/ PhaseSystem
  \/ Drain
  \/ BehaviorPush
  \/ BehaviorControl
  \/ ApplyDeferred
  \/ NextPhase
  \/ CheckControl

Spec == Init /\ [][Next]_vars

(* -------------------------------- C10 ---------------------------------- *)

\* The number of drain runs of the round that found an Event pending.
NumFound == Cardinality({i \in 1 .. Len(stats.seen) : stats.seen[i] > 0})

Terminal == {"Paused", "Aborted", "Finished"}

\* A value was written to ModelControl in the current round.
Requested == stats.writes # {}

\* C11: when a behavior of any phase sets ModelControl to Finished, Aborted
\* or Paused during a round, the round is completed (every system of the
\* Schedule runs), the loop then stops and no round is started; once the
\* loop has stopped nothing more runs.
C11_StopAfterRound ==
  [][/\ Requested' => control' \in Terminal
     /\ Requested => round' = round
     /\ (Requested /\ pc = "check") => pc' = "done"
     /\ pc' = "check" => (pc = "Last" /\ stats.ran = 1 .. Len(schedule))
     /\ pc' = "done" => (pc = "check" /\ control \in Terminal)
     /\ pc # "done"]_vars

\* Model::run has stopped after its second round, in which a First-phase
\* behavior requested Paused and nothing else wrote ModelControl.
C11_Witness ==
  /\ pc = "done"
  /\ round = 2
  /\ control = "Paused"
  /\ stats.writes = {<< "behavior", "Paused" >>}
  /\ \E i \in 1 .. Len(schedule) :
       schedule[i].phase = "First" /\ schedule[i].effect = "control"

(* -------------------------------- C12 ---------------------------------- *)

DrainStep == Len(stats'.seen) = Len(stats.seen) + 1

\* A drain behavior of the current round found no Event pending.
Starved == \E i \in 1 .. Len(stats.seen) : stats.seen[i] = 0

\* C13: a run of the drain behavior that finds no Event pending sets
\* ModelControl to Aborted, pops and queues nothing, and the loop stops at the
\* end of that round; a run that finds an Event queues the command of the
\* Event it pops and leaves ModelControl as it is.  No action is queued or
\* executed for a run that found nothing.
C13_StarvationAborts ==
  [][/\ (DrainStep /\ Len(timeline.event_queue) = 0) =>
          /\ control' = "Aborted"
          /\ commands' = commands
          /\ timeline' = timeline
          /\ stats'.popped = stats.popped
     /\ (DrainStep /\ Len(timeline.event_queue) > 0) =>
          /\ control' = control
          /\ Len(stats'.popped) = Len(stats.popped) + 1
          /\ commands' = Append(commands,
                                stats'.popped[Len(stats'.popped)].command)
     /\ Len(stats'.executed) + Len(commands') <= Len(stats'.popped)
     /\ Starved' => control' \in Terminal
     /\ (Starved /\ pc = "check") => pc' = "done"]_vars

\* Model::run has stopped after its second round, whose drain found nothing
\* pending and requested Aborted.
C13_Witness ==
  /\ pc = "done"
  /\ round = 2
  /\ control = "Aborted"
  /\ stats.seen = << 0 >>
  /\ stats.executed = << >>

(* -------------------------------- C14 ---------------------------------- *)

\* The behaviors of the modules that wrote ModelControl in the current round
\* all wrote Finished, and one did.
BehaviorsFinished ==
  /\ << "behavior", "Finished" >> \in stats.writes
  /\ \A w \in stats.writes : w[1] = "behavior" => w[2] = "Finished"

\* C14: whenever a behavior of a module sets ModelControl to Finished during
\* a round (and no behavior of a module asks for anything else), the value
\* Model::run reads at the end of that round is Finished, in whatever order
\* the behaviors of the Normal phase ran.
C14_FinishedIsRead ==
  (pc = "check" /\ BehaviorsFinished) => control = "Finished"

(* -------------------------------- C15 ---------------------------------- *)

\* The commands of the run: pending, queued for the sync point, or executed.
AllCommands ==
  {e.command : e \in Pending(timeline)}
    \cup {commands[i] : i \in 1 .. Len(commands)}
    \cup {hist[i].command : i \in 1 .. Len(hist)}

\* The Model holds one user module, which scheduled at initialization an
\* Event that schedules a second Event setting ModelControl to Finished.
InScenarioTwoRounds ==
  /\ pc # "setup"
  /\ nmodules = 1
  /\ "Scheduler" \in resources
  /\ \E c \in AllCommands : c.id = 1 /\ c.kind = "schedule" /\ c.then = "finish"

\* C15: in that scenario Model::run stops after exactly two rounds: the first
\* drains the initial Event and leaves ModelControl Running, its action
\* schedules the second Event at now() + 1; the second round drains that
\* Event, whose action sets Finished; there is no third round and no third
\* drain.
C15_TwoRounds ==
  InScenarioTwoRounds =>
    /\ round <= 2
    /\ Len(hist) <= 2
    /\ pc \in {"Last", "check", "done"} =>
         /\ stats.seen = << 1 >>
         /\ Len(stats.popped) = 1
         /\ Len(stats.executed) = 1
         /\ Len(hist) = round
         /\ TimelineNow(timeline) = round - 1
    /\ (pc \in {"Last", "check"} /\ round = 1) =>
         /\ control = "Running"
         /\ Len(timeline.event_queue) = 1
         /\ timeline.event_queue[1].time = stats.executed[1].now + 1
    /\ (pc \in {"Last", "check", "done"} /\ round = 2) =>
         /\ control = "Finished"
         /\ timeline.event_queue = << >>
    /\ pc = "done" => round = 2

\* The scenario has run to its end: Model::run has returned.
C15_Witness ==
  /\ InScenarioTwoRounds
  /\ pc = "done"
  /\ Len(hist) = 2

(* -------------------------------- C16 ---------------------------------- *)

\* The position of a phase in the order configure_sets enforces.
PhaseRank(phase) ==
  IF phase = ExecutionPhase[1] THEN 1 ELSE IF phase = ExecutionPhase[2] THEN 2 ELSE 3

\* The systems of the Schedule registered in a phase before / after phase.
Earlier(phase) ==
  {j \in 1 .. Len(schedule) : PhaseRank(schedule[j].phase) < PhaseRank(phase)}

Later(phase) ==
  {j \in 1 .. Len(schedule) : PhaseRank(schedule[j].phase) > PhaseRank(phase)}

\* C16: in every round, when a system runs every system of an earlier phase
\* has run in that round and no system of a later phase has: the First phase
\* is complete before the Normal phase starts and the Normal phase before the
\* Last.  So a Last-phase behavior A runs in a world that holds what a
\* First-phase behavior B did in that round, and B runs in a world in which A
\* has not run in that round, whatever the order of their registration.
C16_PhaseOrder ==
  [][\A i \in stats'.ran \ stats.ran :
       /\ Earlier(schedule[i].phase) \subseteq stats.ran
       /\ Later(schedule[i].phase) \cap stats.ran = {}
       /\ schedule[i].phase = "First" =>
            (stats.seen = << >> /\ stats.executed = << >>)]_vars

\* A round is over in which a First-phase behavior B, registered after a
\* Last-phase behavior A that schedules Events, requested Paused, and A ran
\* in the Last phase.
C16_Witness ==
  /\ pc = "check"
  /\ \E a, b \in stats.ran :
       /\ a < b
       /\ schedule[a].phase = "Last" /\ schedule[a].name = "behavior"
       /\ schedule[a].effect = "push"
       /\ schedule[b].phase = "First" /\ schedule[b].name = "behavior"
       /\ schedule[b].effect = "control"
  /\ << "behavior", "Paused" >> \in stats.writes

(* -------------------------------- C17 ---------------------------------- *)

\* The step executes commands of popped Events.
ExecStep == Len(stats'.executed) > Len(stats.executed)

\* The drain behaviors of the Schedule.
Drains == {i \in 1 .. Len(schedule) : schedule[i].name = "run_timeline_event"}

Invocations(c) == Cardinality({i \in 1 .. Len(hist) : hist[i].command.id = c.id})

\* The number of times the command c is queued for the sync point.
Queued(c) == Cardinality({i \in 1 .. Len(commands) : commands[i].id = c.id})

\* C18: over the whole run no action of an Event is invoked twice, an action
\* invoked is the action of an Event that was pushed and is no longer
\* pending, and every Event a drain behavior pops has its action invoked
\* exactly once, in the round of the pop: until the sync point it is queued
\* once and not invoked, from the Last phase on it has been invoked once, and
\* the invocations of the current round are those of the Events popped in it.
C18_ExactlyOnce ==
  /\ \A i \in 1 .. Len(hist) :
       /\ Invocations(hist[i].command) = 1
       /\ hist[i].command.id \in 1 .. created
       /\ \A e \in Pending(timeline) : e.command.id # hist[i].command.id
  /\ \A k \in 1 .. Len(stats.popped) :
       LET c == stats.popped[k].command IN
       /\ Invocations(c) + Queued(c) = 1
       /\ pc \in {"Last", "check", "done"} => Invocations(c) = 1
  /\ Len(stats.executed) <= Len(hist)
  /\ \A k \in 1 .. Len(stats.executed) :
       /\ k <= Len(stats.popped)
       /\ hist[Len(hist) - Len(stats.executed) + k].command
            = stats.popped[k].command

\* Model::run has returned after three Events were popped, each of which
\* had its action invoked.
C18_Witness ==
  /\ pc = "done"
  /\ Len(hist) = 3
  /\ {hist[i].command.id : i \in 1 .. 3} = {1, 2, 3}

(* -------------------------------- C20 ---------------------------------- *)

\* The resources Model::with_random_seed installs.
KernelResources == {"ModelControl", "Timeline", "RngResource"}

\* The step is the initialization of a user module by add_module.
AddStep == nmodules' = nmodules + 1

\* C20: a constructed Model holds ModelControl with value Running, a Timeline
\* with now() = 0 and nothing pending whose drain behavior is in the Normal
\* phase, and the RNG resource seeded with the seed given, no user module
\* having been initialized; and every user module is initialized in a World
\* that holds these three resources.
C20_Construction ==
  /\ nmodules = 0
  /\ control = "Running"
  /\ timeline = [now |-> 0, event_queue |-> << >>]
  /\ \E seed \in Seeds : rng = Some(seed)
  /\ resources = KernelResources
  /\ Cardinality({i \in 1 .. Len(schedule) :
                    schedule[i] = System("Normal", "run_timeline_event", "none")}) = 1
  /\ [][AddStep =>
          /\ KernelResources \subseteq resources
          /\ KernelResources \subseteq resources'
          /\ TimelineNow(timeline) = 0
          /\ rng # None /\ rng' = rng
          /\ control = "Running"
          /\ Drains # {}]_vars

\* Two user modules have been initialized, one scheduling an Event and one
\* adding a behavior, and Model::run has not been called.
C20_Witness ==
  /\ pc = "setup"
  /\ nmodules = 2
  /\ {"Scheduler", "Behavior"} \subseteq resources
  /\ Len(timeline.event_queue) = 1

(* --------- specification of two runs of Models built alike ------------- *)

\* The shared random stream: SmallRng is a deterministic generator, its state
\* after a draw and the value drawn being functions of its state before.
NextRng(s) == (5 * s + 3) % 64

\* The delay sampled from a generator in state s (Exp::sample(&mut rng.rng)),
\* in whole time units.
Sample(s) == s % (MaxDelay + 1)

\* The modules of the two-run specification: their initialization and their
\* behaviors are functions of the World, so that what is left to vary
\* between two runs is the order of the systems within a phase.
SampleModules ==
  {SchedulerModule(k, "noop") : k \in CommandKinds}
    \cup {SchedulerModule("schedule", "finish")}
    \cup {BehaviorModule(ph, "sample") : ph \in {"First", "Normal", "Last"}}

\* Model::with_random_seed(seed) followed by add_module of each module.
RECURSIVE AddModules(_, _)
AddModules(m, modules) ==
  IF modules = << >> THEN m
  ELSE AddModules(AddModule(m, Head(modules)), Tail(modules))

Construct(seed, modules) == AddModules(WithRandomSeed(seed), modules)

\* What a run leaves to compare: the Events popped, in order (each by the
\* number of its creation), and the shared resources when Model::run
\* returns, now() being the time of the last Event popped.
RunResult ==
  [popped  |-> [i \in 1 .. Len(hist) |-> hist[i].command.id],
   control |-> control,
   now     |-> TimelineNow(timeline),
   pending |-> [i \in 1 .. Len(timeline.event_queue) |->
                  timeline.event_queue[i].time],
   rng     |-> rng]

\* The state after Model::with_random_seed(seed); last remembers the seed
\* and the modules registered, and which run is under way.
TwoRunsInit ==
  /\ \E seed \in Seeds :
       LET m == WithRandomSeed(seed) IN
       /\ timeline = m.timeline
       /\ KernelIs(m, "setup")
       /\ last = LastIs("construct", [seed |-> seed, modules |-> << >>], None, 1)
  /\ hist = << >>

\* model.add_module(module), before model.run().
AddSampleModule ==
  /\ pc = "setup"
  /\ nmodules < MaxModules
  /\ \E module \in SampleModules :
       /\ module.type = "Scheduler" => created < MaxEvents
       /\ ModelBecomes(AddModule(CurrentModel, module))
       /\ last' = [last EXCEPT !.arg.modules = Append(@, module)]
  /\ nmodules' = nmodules + 1
  /\ UNCHANGED << hist, pc, round, todo, commands, synced, stats >>
  /\ UNCHANGED world

\* A behavior that schedules an Event after a sampled delay runs, as
\* schedule_recovery does for a new infection: it pushes an Event at
\* now() + sample, while Events and time are left within the bounds.
BehaviorSample ==
  /\ InPhase
  /\ \E i \in todo :
       /\ schedule[i].name = "behavior"
       /\ schedule[i].effect = "sample"
       /\ NoPhaseSystem
       /\ todo' = todo \ {i}
       /\ stats' = [stats EXCEPT !.ran = @ \cup {i}]
       /\ LET time == TimelineNow(timeline) + Sample(rng[1]) IN
          IF created < MaxEvents /\ time <= MaxTime
          THEN /\ timeline' = TimelinePush(timeline,
                                 Event(time, Command("noop", "noop", created + 1)))
               /\ created' = created + 1
               /\ rng' = Some(NextRng(rng[1]))
          ELSE UNCHANGED << timeline, created, rng >>
  /\ UNCHANGED << hist, last, control, resources, schedule, nmodules,
                  pc, round, commands, synced >>
  /\ UNCHANGED world

\* The first run has returned: a second Model is constructed with the same
\* seed and the same modules in the same order, and run.
RunAgain ==
  /\ pc = "done"
  /\ last.serial = 1
  /\ ModelBecomes(Construct(last.arg.seed, last.arg.modules))
  /\ last' = [last EXCEPT !.ret = Some(RunResult), !.serial = 2]
  /\ hist' = << >>
  /\ BeginRound(1)
  /\ UNCHANGED nmodules
  /\ UNCHANGED world

TwoRunsNext ==
  \/ AddSampleModule
  \/ Run
  \/ PhaseSystem
  \/ Drain
  \/ BehaviorSample
  \/ ApplyDeferred
  \/ NextPhase
  \/ CheckControl
  \/ RunAgain

SpecTwoRuns == TwoRunsInit /\ [][TwoRunsNext]_vars

(* -------------------------------- C19 ---------------------------------- *)

\* C19: when the second of two runs of Models constructed with the same seed
\* and the same sequence of module registrations has returned, the Events it
\* popped and the shared resources it left (ModelControl, now(), the times
\* of the pending Events, the generator) are those of the first run.
C19_Deterministic ==
  (pc = "done" /\ last.serial = 2) => RunResult = last.ret[1]


(* ------- specification of a Model under calls of add_module and run ---- *)

\* A Timeline that has been used: now() = 1 and one Event pending.
UsedTimeline ==
  [now |-> 1, event_queue |-> << Event(1, Command("noop", "noop", 0)) >>]

\* The modules a caller adds, before a call of run or between two.
CallModules ==
  {TimelineModule, TimelineModuleOf(UsedTimeline),
   SchedulerModule("noop", "noop"), SchedulerModule("schedule", "noop"),
   BehaviorModule("First", "push"), BehaviorModule("Last", "control")}

\* The state after Model::new().
CallsInit ==
  /\ timeline = ModelNew.timeline
  /\ KernelIs(ModelNew, "setup")
  /\ hist = << >>
  /\ last = LastIs("init", None, None, 0)

\* model.add_module(module), Model::run not being active; last keeps the
\* Model the call found.
AddModuleCall ==
  /\ pc \in {"setup", "done"}
  /\ nmodules < MaxModules + 1
  /\ \E module \in CallModules :
       /\ module.type = "Scheduler" => created < MaxEvents
       /\ ModelBecomes(AddModule(CurrentModel, module))
       /\ last' = LastIs("add_module",
                         Some([self |-> CurrentModel, module |-> module]),
                         None, last.serial)
  /\ nmodules' = nmodules + 1
  /\ UNCHANGED << hist, pc, round, todo, commands, synced, stats >>
  /\ UNCHANGED world

\* A plausible slip: a loop that tests ModelControl before its first round
\* (while instead of loop .. break).
RunCallTestsFirst ==
  /\ pc \in {"setup", "done"}
  /\ last.serial < MaxRuns
  /\ last' = LastIs("run", Some([self |-> CurrentModel]), None, last.serial + 1)
  /\ IF control = "Running"
     THEN BeginRound(1)
     ELSE /\ pc' = "done"
          /\ round' = 0
          /\ todo' = {}
          /\ commands' = << >>
          /\ synced' = FALSE
          /\ stats' = NoStats
  /\ UNCHANGED << timeline, hist, control, rng, resources, schedule,
                  nmodules, created >>
  /\ UNCHANGED world

\* model.run(), for the first time or again: the loop is entered and the
\* first round starts; last keeps the Model the call found.
RunCall ==
  /\ pc \in {"setup", "done"}
  /\ last.serial < MaxRuns
  /\ last' = LastIs("run", Some([self |-> CurrentModel]), None, last.serial + 1)
  /\ BeginRound(1)
  /\ UNCHANGED << timeline, hist, control, rng, resources, schedule,
                  nmodules, created >>
  /\ UNCHANGED world

CallsNext ==
  \/ AddModuleCall
  \/ RunCall
  \/ PhaseSystem
  \/ Drain
  \/ BehaviorPush
  \/ BehaviorControl
  \/ ApplyDeferred
  \/ NextPhase
  \/ CheckControl

SpecCalls == CallsInit /\ [][CallsNext]_vars


(* ------------- specification of a run that is not held up ------------- *)

\* The modules added to the Model whose run is followed to its end.
LiveModules ==
  {TimelineModule,
   SchedulerModule("noop", "noop"), SchedulerModule("schedule", "noop"),
   BehaviorModule("Normal", "push"), BehaviorModule("Last", "control")}

\* model.add_module(module), before model.run().
AddLiveModule ==
  /\ pc = "setup"
  /\ nmodules < MaxModules
  /\ \E module \in LiveModules :
       /\ module.type = "Scheduler" => created < MaxEvents
       /\ ModelBecomes(AddModule(CurrentModel, module))
  /\ nmodules' = nmodules + 1
  /\ UNCHANGED << hist, last, pc, round, todo, commands, synced, stats >>
  /\ UNCHANGED world

LiveNext ==
  \/ AddLiveModule
  \/ Run
  \/ PhaseSystem
  \/ Drain
  \/ BehaviorPush
  \/ BehaviorControl
  \/ ApplyDeferred
  \/ NextPhase
  \/ CheckControl

\* Model::new(), add_module and run: main and the loop of Model::run are
\* sequential code, so a step that can be taken is taken in the end.
SpecLive == CallsInit /\ [][LiveNext]_vars /\ WF_vars(LiveNext)

(* -------------------------------- C27 ---------------------------------- *)

\* A drain of the current round has found nothing pending.
FoundNothing == 0 \in {stats.seen[i] : i \in 1 .. Len(stats.seen)}

\* A round after which the loop goes on has executed the command of an
\* Event, so a call of run has at most one round more than Events executed,
\* and these are at most the Events pushed; when Events are pending as the
\* Normal phase starts, one is popped; a round whose drain finds nothing
\* pending ends with a terminal ModelControl; a Model without user modules
\* stops after one round, ModelControl = Aborted and now() = 0.
RoundsBounded ==
  /\ Len(hist) <= created
  /\ round <= Len(hist) + 1
  /\ (pc = "check" /\ control = "Running") =>
       (Len(stats.executed) >= 1 /\ ~FoundNothing)
  /\ (pc \in {"Last", "check", "done"} /\ stats.pending > 0) =>
       Len(stats.popped) >= 1
  /\ (pc \in {"Last", "check", "done"} /\ FoundNothing) =>
       control \in Terminal
  /\ (nmodules = 0 /\ pc \in {"check", "done"}) =>
       /\ round = 1
       /\ control = "Aborted"
       /\ TimelineNow(timeline) = 0
       /\ hist = << >>

\* C27: Model::run terminates when finitely many Events are pushed: the
\* rounds of a run are bounded by the Events pushed (RoundsBounded), and a
\* run in which fewer than MaxRounds Events are pushed, which the bound on
\* rounds of this specification therefore does not cut short, returns.
C27_RunTerminates ==
  /\ []RoundsBounded
  /\ <>(pc = "done" \/ created >= MaxRounds)

\* Two Events were pushed, the second by the command of the first; the
\* first two rounds have executed one each, the third has found nothing
\* pending, and the loop has stopped with ModelControl = Aborted.
C27_Witness ==
  /\ pc = "done"
  /\ control = "Aborted"
  /\ NumDrains = 1
  /\ created = 2
  /\ Len(hist) = 2
  /\ hist[1].command.kind = "schedule"
  /\ round = 3
  /\ timeline.event_queue = << >>

(* -------------------------------- C30 ---------------------------------- *)

\* The last call was add_module with a Timeline value.
TimelineAdded == last.op = "add_module" /\ last.arg[1].module.type = "Timeline"

\* C30: add_module with a Timeline value leaves a fresh Timeline (now() = 0,
\* nothing pending) in the world, whatever Timeline the world held and
\* whatever the value passed is, and adds one more drain behavior to the
\* Normal phase; the rest of the Model is as it was.
C30_TimelineReplaced ==
  TimelineAdded =>
    LET before == last.arg[1].self IN
    /\ timeline = [now |-> 0, event_queue |-> << >>]
    /\ schedule = Append(before.schedule,
                         System("Normal", "run_timeline_event", "none"))
    /\ resources = before.resources
    /\ control = before.control
    /\ rng = before.rng
    /\ created = before.created

\* After a run that left now() = 1, an Event was scheduled, and then a used
\* Timeline value was registered: now() is 0, nothing is pending and there
\* are two drain behaviors.
C30_Witness ==
  /\ TimelineAdded
  /\ last.arg[1].module.self = UsedTimeline
  /\ last.arg[1].self.timeline.now = 1
  /\ Len(last.arg[1].self.timeline.event_queue) = 1
  /\ timeline = TimelineDefault
  /\ NumDrains = 2
  /\ pc = "done"

(* -------------------------------- C26 ---------------------------------- *)

\* The step is a call of Model::run.
RunStep == last'.serial = last.serial + 1

\* Every system of the Schedule has run in the current round.
RoundComplete == stats.ran = 1 .. Len(schedule)

\* C26: a call of Model::run starts a round whatever ModelControl is, and
\* returns only from the test that follows a round: when it has returned,
\* at least one round has run with every system of its three phases, a
\* drain has popped an Event if one was pending when the Normal phase
\* started, and the command of that Event has been executed.
C26_RoundBeforeTest ==
  /\ [][RunStep => /\ pc' = "First"
                   /\ round' = 1
                   /\ todo' = SystemsIn("First")
                   /\ control' = control]_vars
  /\ [][(pc' = "done" /\ pc # "done") => (pc = "check" /\ RoundComplete)]_vars
  /\ []((last.op = "run" /\ pc = "done") =>
          /\ round >= 1
          /\ RoundComplete
          /\ stats.pending > 0 =>
               (Len(stats.popped) >= 1 /\ Len(stats.executed) >= 1))

\* Model::run was called with ModelControl = Aborted and one Event pending,
\* and has returned after one round in which the Event was popped and its
\* command executed; ModelControl is still Aborted.
C26_Witness ==
  /\ last.op = "run"
  /\ last.arg[1].self.control = "Aborted"
  /\ Len(last.arg[1].self.timeline.event_queue) = 1
  /\ pc = "done"
  /\ round = 1
  /\ RoundComplete
  /\ Len(stats.popped) = 1
  /\ Len(stats.executed) = 1
  /\ control = "Aborted"


(* -------------------------------- C25 ---------------------------------- *)

\* The Event of the round whose command is the k-th executed.
PoppedOf(k) ==
  CHOOSE e \in {stats.popped[j] : j \in 1 .. Len(stats.popped)} :
    e.command.id = stats.executed[k].id

Path(directory, file_prefix, short_name) ==
  [directory |-> directory, file_prefix |-> file_prefix,
   short_name |-> short_name]

\* ReporterConfiguration::new.
ReporterConfigurationNew(file_prefix, output_directory, overwrite) ==
  [file_prefix |-> file_prefix, output_directory |-> output_directory,
   overwrite |-> overwrite]

\* env::current_dir().
CurrentDir == "."

\* impl Default for ReporterConfiguration.
ReporterConfigurationDefault == ReporterConfigurationNew("", CurrentDir, FALSE)

\* ReporterConfiguration::generate_filename.
GenerateFilename(config, short_name) ==
  Path(config.output_directory, config.file_prefix, short_name)

\* Reporter::new: no writer yet.
ReporterNew(short_name) == [short_name |-> short_name, writer |-> None]

\* std::fs::File::create_new on the files around World w: fails when the
\* directory is missing and when the file exists.
FileCreateNew(w, path) ==
  IF path.directory \notin w.dirs
  THEN [ok |-> FALSE, kind |-> "NotFound", files |-> w.files]
  ELSE IF path \in w.files
  THEN [ok |-> FALSE, kind |-> "AlreadyExists", files |-> w.files]
  ELSE [ok |-> TRUE, kind |-> "", files |-> w.files \cup {path}]

\* std::fs::File::create: fails when the directory is missing and when the
\* file may not be written.
FileCreate(w, path) ==
  IF path.directory \notin w.dirs
  THEN [ok |-> FALSE, kind |-> "NotFound", files |-> w.files]
  ELSE IF path \in w.locked
  THEN [ok |-> FALSE, kind |-> "PermissionDenied", files |-> w.files]
  ELSE [ok |-> TRUE, kind |-> "", files |-> w.files \cup {path}]

\* Reporter::initialize: Ok with the writer set, or Err(IxaError::IoError).
ReporterInitialize(self, report_configuration, w) ==
  LET path == GenerateFilename(report_configuration, self.short_name)
      created_file == FileCreateNew(w, path)
      opened == IF created_file.ok THEN created_file
                ELSE IF created_file.kind = "AlreadyExists"
                        /\ report_configuration.overwrite
                THEN FileCreate(w, path)
                ELSE created_file
  IN IF opened.ok
     THEN [ok |-> TRUE, self |-> [self EXCEPT !.writer = Some(path)],
           files |-> opened.files]
     ELSE [ok |-> FALSE, self |-> self, files |-> w.files]

\* impl Module for ReporterConfiguration: insert_resource(self).
ReporterConfigurationInitializeWithWorld(self, w) ==
  [world |-> [w EXCEPT !.configuration = Some(self)], systems |-> None,
   panicked |-> FALSE]

\* A plausible slip: a Reporter that installs the default configuration
\* whether or not one is there.
ReporterInitializeWithWorldResets(self, w) ==
  LET configured == [w EXCEPT !.configuration = Some(ReporterConfigurationDefault)]
      r == ReporterInitialize(self, configured.configuration[1], configured)
  IN IF r.ok
     THEN [world |-> [configured EXCEPT !.files = r.files,
                                        !.reporters = {r.self}],
           systems |-> None, panicked |-> FALSE]
     ELSE [world |-> configured, systems |-> None, panicked |-> TRUE]

\* A plausible slip: a Reporter that drops the Result of initialize.
ReporterInitializeWithWorldDropsResult(self, w) ==
  LET configured == IF w.configuration = None
                    THEN [w EXCEPT !.configuration =
                                     Some(ReporterConfigurationDefault)]
                    ELSE w
      r == ReporterInitialize(self, configured.configuration[1], configured)
  IN [world |-> [configured EXCEPT !.files = r.files, !.reporters = {r.self}],
      systems |-> None, panicked |-> FALSE]

\* impl Module for Reporter<Marker>: gets the ReporterConfiguration or
\* inserts the default one, initializes itself (expect: a panic on Err) and
\* inserts itself, in place of a Reporter<Marker> already there.
ReporterInitializeWithWorld(self, w) ==
  LET configured == IF w.configuration = None
                    THEN [w EXCEPT !.configuration =
                                     Some(ReporterConfigurationDefault)]
                    ELSE w
      r == ReporterInitialize(self, configured.configuration[1], configured)
  IN IF r.ok
     THEN [world |-> [configured EXCEPT !.files = r.files,
                                        !.reporters = {r.self}],
           systems |-> None, panicked |-> FALSE]
     ELSE [world |-> configured, systems |-> None, panicked |-> TRUE]

(* --------------- epi-isolation: parameters, population_loader ---------- *)

\* impl Module for Parameters: insert_resource(self).
ParametersInitializeWithWorld(self, w) ==
  [world |-> [w EXCEPT !.parameters = Some(self)], systems |-> None,
   panicked |-> FALSE]

\* PopulationLoader::new.
PopulationLoaderNew == [input_file |-> None]

\* PopulationLoader::load_population_data: opens its input file or the one
\* the Parameters resource names, and spawns the people in it.
LoadPopulationData(self, w) ==
  LET path == IF self.input_file # None THEN self.input_file
              ELSE IF w.parameters = None THEN None
              ELSE Some(w.parameters[1].synth_population_file)
  IN IF path = None \/ path[1] \notin w.files
     THEN [ok |-> FALSE, world |-> w]
     ELSE [ok |-> TRUE, world |-> [w EXCEPT !.population = path]]

\* impl Module for PopulationLoader: expect, a panic on Err.
PopulationLoaderInitializeWithWorld(self, w) ==
  LET r == LoadPopulationData(self, w)
  IN [world |-> r.world, systems |-> None, panicked |-> ~r.ok]


(* ---------- specification of the setup of a reporting Model ------------ *)

\* The directory the configurations of the examples name.
OutputDir == "output"

\* The configurations a caller registers.
Configurations ==
  {ReporterConfigurationNew("epi_", OutputDir, overwrite) :
     overwrite \in BOOLEAN}

\* The file Parameters names as the synthetic population.
PopulationFile == Path("input", "", "population")

\* The modules added: a configuration, a Reporter, Parameters, a
\* PopulationLoader, and a module that schedules Events.
SetupModules ==
  {[type |-> "ReporterConfiguration", self |-> c] : c \in Configurations}
    \cup {[type |-> "Reporter", self |-> ReporterNew("incidence")],
          [type |-> "Parameters",
           self |-> [synth_population_file |-> PopulationFile]],
          [type |-> "PopulationLoader", self |-> PopulationLoaderNew],
          SchedulerModule("schedule", "noop")}

\* Module::initialize_with_world of the modules that use the files.
SetupInitializeWithWorld(module, w) ==
  CASE module.type = "ReporterConfiguration" ->
         ReporterConfigurationInitializeWithWorld(module.self, w)
    [] module.type = "Reporter" ->
         ReporterInitializeWithWorld(module.self, w)
    [] module.type = "Parameters" ->
         ParametersInitializeWithWorld(module.self, w)
    [] module.type = "PopulationLoader" ->
         PopulationLoaderInitializeWithWorld(module.self, w)

\* The files a run may find: the reports of an earlier run, the population.
FilesBefore ==
  {Path(CurrentDir, "", "incidence"), Path(OutputDir, "epi_", "incidence"),
   PopulationFile}

\* Model::new() in some state of the disk: the current directory exists.
SetupInit ==
  /\ timeline = ModelNew.timeline
  /\ ModelIs(ModelNew, "setup")
  /\ hist = << >>
  /\ last = LastIs("init", None, None, 0)
  /\ \E dirs \in SUBSET {OutputDir, "input"} :
     \E files \in SUBSET {f \in FilesBefore :
                            f.directory \in dirs \cup {CurrentDir}} :
     \E locked \in {{}, files} :
       world = [NoWorld EXCEPT !.dirs = dirs \cup {CurrentDir},
                               !.files = files, !.locked = locked]

\* model.add_module(module), before model.run(): a panic in
\* initialize_with_world unwinds out of add_module and of its caller.  last
\* keeps the World the call found.
AddSetupModule ==
  /\ pc = "setup"
  /\ nmodules < MaxModules + 1
  /\ \E module \in SetupModules :
       /\ last' = LastIs("add_module",
                         Some([self |-> world, module |-> module]),
                         None, last.serial)
       /\ IF module.type = "Scheduler"
          THEN /\ created < MaxEvents
               /\ ModelBecomes(AddModule(CurrentModel, module))
               /\ UNCHANGED << world, pc >>
          ELSE LET r == SetupInitializeWithWorld(module, world) IN
               /\ world' = r.world
               /\ resources' = IF r.panicked THEN resources
                               ELSE resources \cup {module.type}
               /\ pc' = IF r.panicked THEN "panicked" ELSE pc
               /\ UNCHANGED << timeline, control, rng, schedule, created >>
  /\ nmodules' = nmodules + 1
  /\ UNCHANGED << hist, round, todo, commands, synced, stats >>

SetupNext ==
  \/ AddSetupModule
  \/ Run
  \/ PhaseSystem
  \/ Drain
  \/ ApplyDeferred
  \/ NextPhase
  \/ CheckControl

SpecSetup == SetupInit /\ [][SetupNext]_vars


(* -------------------------------- C23 ---------------------------------- *)

\* The last call was add_module with a module of the type, and returned.
Added(type) ==
  /\ last.op = "add_module"
  /\ last.arg[1].module.type = type
  /\ pc # "panicked"

\* C23: after a Reporter module is initialized the World holds a
\* ReporterConfiguration: the one already installed, unchanged and used to
\* name the Reporter's file, or, none being installed, the default one
\* (empty prefix, current directory, overwrite = false); so it is whether
\* the configuration module is registered before the Reporter or after it.
C23_ConfigurationExists ==
  /\ Added("Reporter") =>
       LET before == last.arg[1].self.configuration
           short_name == last.arg[1].module.self.short_name
       IN /\ world.configuration # None
          /\ before # None => world.configuration = before
          /\ before = None =>
               world.configuration =
                 Some([file_prefix |-> "", output_directory |-> ".",
                       overwrite |-> FALSE])
          /\ \A r \in world.reporters :
               r.writer = Some([directory |-> world.configuration[1].output_directory,
                                file_prefix |-> world.configuration[1].file_prefix,
                                short_name |-> short_name])
          /\ world.reporters # {}
  /\ (Added("ReporterConfiguration") /\ world.reporters # {}) =>
       /\ world.configuration # None
       /\ world.reporters = last.arg[1].self.reporters

\* A Reporter was initialized in a World without a configuration, and the
\* configuration module was registered after it: the Reporter writes to
\* the file the default configuration names, and the World holds the
\* configuration registered.
C23_Witness ==
  /\ Added("ReporterConfiguration")
  /\ last.arg[1].self.configuration = Some(ReporterConfigurationDefault)
  /\ world.configuration = Some(ReporterConfigurationNew("epi_", OutputDir, TRUE))
  /\ \E r \in world.reporters :
       r.writer = Some(Path(".", "", "incidence"))

(* -------------------------------- C22 ---------------------------------- *)

\* The Reporter cannot create its file in World w: the directory is
\* missing, or the file exists and may not be overwritten.
ReporterFails(w, self) ==
  LET config == IF w.configuration = None
                THEN [file_prefix |-> "", output_directory |-> ".",
                      overwrite |-> FALSE]
                ELSE w.configuration[1]
      path == [directory |-> config.output_directory,
               file_prefix |-> config.file_prefix,
               short_name |-> self.short_name]
  IN \/ path.directory \notin w.dirs
     \/ path \in w.files /\ (~config.overwrite \/ path \in w.locked)

\* The PopulationLoader cannot read its input in World w: it has no input
\* file and the World no Parameters, or the file is missing.
LoaderFails(w, self) ==
  IF self.input_file # None THEN self.input_file[1] \notin w.files
  ELSE \/ w.parameters = None
       \/ w.parameters[1].synth_population_file \notin w.files

\* The initialization of the module the last add_module was called with
\* has failed.
InitializationFailed ==
  /\ last.op = "add_module"
  /\ LET module == last.arg[1].module
         w == last.arg[1].self
     IN \/ module.type = "Reporter" /\ ReporterFails(w, module.self)
        \/ module.type = "PopulationLoader" /\ LoaderFails(w, module.self)

\* C22: when the initialization of a module fails in add_module, the tick
\* loop never starts: no round is executed, no Event is popped and now()
\* keeps its initial value.
C22_NoRunAfterFailure ==
  InitializationFailed =>
    /\ pc = "panicked"
    /\ round = 0
    /\ stats = NoStats
    /\ hist = << >>
    /\ commands = << >>
    /\ TimelineNow(timeline) = 0
    /\ Len(timeline.event_queue) = created

\* An Event is pending and a Reporter module, the file of which is there
\* already and may not be overwritten, has been added: the Event is still
\* pending and Model::run cannot be called.
C22_Witness ==
  /\ InitializationFailed
  /\ last.arg[1].module.type = "Reporter"
  /\ last.arg[1].self.configuration # None
  /\ Len(timeline.event_queue) = 1
  /\ pc = "panicked"


(* ------------------- basic-infection: the modules ---------------------- *)

\* A u32 is held as the two's complement representative of its value, in
\* -2^31 .. 2^31 - 1: -1 stands for 4294967295.  The sum of two u32 that
\* wraps around:
U32Add(a, b) ==
  IF a >= 0 /\ b >= 0 /\ a > 2147483647 - b
  THEN (a - 2147483647 - 1) + (b - 2147483647 - 1)
  ELSE IF a < 0 /\ b < 0 /\ a < (-2147483647 - 1) - b
       THEN (a + 2147483647 + 1) + (b + 2147483647 + 1)
       ELSE a + b

\* a < b for two u32.
U32Less(a, b) ==
  IF (a >= 0) = (b >= 0) THEN a < b ELSE b < 0

\* The command of an Event of basic-infection: attempt_infection, or the
\* closure schedule_recovery boxes, which captures an entity (0: none).
InfectionCommand(kind, entity, id) == [kind |-> kind, entity |-> entity, id |-> id]

\* PopulationStatistics of the module's initialization, for a population
\* of a size.
PopulationStatisticsWithSize(size) ==
  [susceptible |-> size, infected |-> 0, recovered |-> 0]

\* PopulationStatistics::size, in a build that does not check overflow.
Size(p) == U32Add(U32Add(p.infected, p.recovered), p.susceptible)

\* A plausible slip: an update that counts the new status and leaves the
\* count of the status left as it was.
UpdateStatsCountsOnly(p, new_status) ==
  CASE new_status = "Infected" -> [p EXCEPT !.infected = U32Add(@, 1)]
    [] new_status = "Recovered" -> [p EXCEPT !.recovered = U32Add(@, 1)]

\* PopulationStatistics::update_stats, in a build that does not check
\* overflow.
UpdateStats(p, new_status) ==
  CASE new_status = "Infected" ->
         [p EXCEPT !.infected = U32Add(@, 1), !.susceptible = U32Add(@, -1)]
    [] new_status = "Recovered" ->
         [p EXCEPT !.infected = U32Add(@, -1), !.recovered = U32Add(@, 1)]

\* update_stats overflows: a build that checks overflow panics there.
UpdateStatsOverflows(p, new_status) ==
  CASE new_status = "Infected" -> p.infected = -1 \/ p.susceptible = 0
    [] new_status = "Recovered" -> p.infected = 0 \/ p.recovered = -1

\* The statistics a panic of update_stats leaves behind: the first of its
\* two assignments is done if it is the second that overflows.
UpdateStatsPanicked(p, new_status) ==
  CASE new_status = "Infected" ->
         IF p.infected = -1 THEN p ELSE [p EXCEPT !.infected = U32Add(@, 1)]
    [] new_status = "Recovered" ->
         IF p.infected = 0 THEN p ELSE [p EXCEPT !.infected = U32Add(@, -1)]

\* An entity with its InfectionStatus component: added and changed tell
\* whether schedule_recovery (Added) and track_population_changes (Changed)
\* have still to see it.
Person(status, added, changed) ==
  [status |-> status, added |-> added, changed |-> changed]

\* The World of basic-infection before the first round: nobody infected.
\* overflow_checks tells whether the build checks arithmetic overflow (a
\* debug build does, a release build does not), size is the static
\* POPULATION of the build, and panic the message of the panic that ended
\* the run.
InfectionWorld(overflow_checks, size) ==
  [population |-> PopulationStatisticsWithSize(size), entities |-> << >>,
   spawned |-> 0, overflow_checks |-> overflow_checks, size |-> size,
   panic |-> None]

\* The Model main builds: PopulationStatistics with track_population_changes,
\* TransmissionManager with the first attempt_infection at 0.0, and
\* InfectionManager with schedule_recovery, both systems in the Normal phase.
BasicInfection ==
  LET m == WithRandomSeed(123)
  IN [m EXCEPT
        !.timeline = TimelinePush(m.timeline,
                       Event(0, InfectionCommand("attempt_infection", 0, 1))),
        !.created = 1,
        !.resources = @ \cup {"PopulationStatistics", "TransmissionManager",
                              "InfectionManager"},
        !.schedule = @ \o << System("Normal", "track_population_changes", "none"),
                             System("Normal", "schedule_recovery", "none") >>]


\* attempt_infection, run as a command on w = [timeline, control, created,
\* executed, world, panicked, rest]: low tells whether the uniform sample is below
\* a probability strictly between 0 and 1, d is the delay sampled for the
\* next attempt.  update_stats acts on the clone of the statistics.
AttemptInfection(w, c, low, d) ==
  LET population == w.world.population
      infects == /\ population.susceptible # 0
                 /\ \/ Size(population) = 0
                    \/ ~U32Less(population.susceptible, Size(population))
                    \/ low
      after == IF infects THEN UpdateStats(population, "Infected") ELSE population
      entity == w.world.spawned + 1
      spawned == IF infects
                 THEN [w.world EXCEPT
                         !.entities = @ @@ (entity :> Person("Infected", TRUE, TRUE)),
                         !.spawned = entity]
                 ELSE w.world
      next_attempt_time == TimelineNow(w.timeline) + d
      again == /\ Size(after) # 0
               /\ next_attempt_time <= MaxTime
               /\ after.susceptible # 0
  IN [w EXCEPT
        !.world = spawned,
        !.timeline = IF again
                     THEN TimelinePush(@, Event(next_attempt_time,
                            InfectionCommand("attempt_infection", 0, w.created + 1)))
                     ELSE @,
        !.created = IF again THEN @ + 1 ELSE @,
        !.executed = Append(@, [id |-> c.id, now |-> TimelineNow(w.timeline),
                                command |-> c])]

\* A plausible slip: a recovery that skips an entity that is gone.
RecoverIfPresent(w, c) ==
  IF c.entity \notin DOMAIN w.world.entities
  THEN [w EXCEPT
          !.executed = Append(@, [id |-> c.id, now |-> TimelineNow(w.timeline),
                                  command |-> c])]
  ELSE [w EXCEPT
          !.world.entities[c.entity] = Person("Recovered", @.added, TRUE),
          !.executed = Append(@, [id |-> c.id, now |-> TimelineNow(w.timeline),
                                  command |-> c])]

\* The closure schedule_recovery boxes: world.get_mut(entity).expect(..)
\* panics when the entity is gone; otherwise the status becomes Recovered.
Recover(w, c) ==
  IF c.entity \notin DOMAIN w.world.entities
  THEN [w EXCEPT
          !.panicked = TRUE,
          !.world.panic = Some("An entity was removed before it was recovered.")]
  ELSE [w EXCEPT
          !.world.entities[c.entity] = Person("Recovered", @.added, TRUE),
          !.executed = Append(@, [id |-> c.id, now |-> TimelineNow(w.timeline),
                                  command |-> c])]

\* The commands of a queue run in the order queued, up to a panic: rest
\* holds the command that panicked and those behind it.
RECURSIVE ApplyInfectionCommands(_, _, _, _)
ApplyInfectionCommands(w, cmds, low, d) ==
  IF cmds = << >> THEN w
  ELSE LET after == IF Head(cmds).kind = "recover"
                    THEN Recover(w, Head(cmds))
                    ELSE AttemptInfection(w, Head(cmds), low, d)
       IN IF after.panicked
          THEN [after EXCEPT !.rest = cmds]
          ELSE ApplyInfectionCommands(after, Tail(cmds), low, d)

\* A plausible slip: the recoveries are pushed at the delay sampled, taken
\* for a time.
RECURSIVE PushRecoveriesAtDelay(_, _, _, _)
PushRecoveriesAtDelay(tl, entities, time, n) ==
  IF entities = {} THEN tl
  ELSE LET e == CHOOSE x \in entities : \A y \in entities : x <= y
       IN PushRecoveriesAtDelay(
            TimelinePush(tl, Event(time - TimelineNow(tl),
                                   InfectionCommand("recover", e, n + 1))),
            entities \ {e}, time, n + 1)

\* Recovery Events for the entities of a set, in the order of the ids.
RECURSIVE PushRecoveries(_, _, _, _)
PushRecoveries(tl, entities, time, n) ==
  IF entities = {} THEN tl
  ELSE LET e == CHOOSE x \in entities : \A y \in entities : x <= y
       IN PushRecoveries(
            TimelinePush(tl, Event(time, InfectionCommand("recover", e, n + 1))),
            entities \ {e}, time, n + 1)

\* track_population_changes over the entities of a set, in the order of
\* the ids, on t = [population, panicked]: an overflow panics if checked.
RECURSIVE TrackChanges(_, _, _, _)
TrackChanges(t, entities, changed, overflow_checks) ==
  IF changed = {} \/ t.panicked THEN t
  ELSE LET e == CHOOSE x \in changed : \A y \in changed : x <= y
           status == entities[e].status
       IN TrackChanges(
            IF overflow_checks /\ UpdateStatsOverflows(t.population, status)
            THEN [t EXCEPT !.panicked = TRUE,
                           !.population = UpdateStatsPanicked(@, status)]
            ELSE [t EXCEPT !.population = UpdateStats(@, status)],
            entities, changed \ {e}, overflow_checks)

(* ---------------- specification of a run of basic-infection ------------ *)

\* The Model of main, Model::run not yet called.
InfectionInit ==
  /\ timeline = BasicInfection.timeline
  /\ ModelIs(BasicInfection, "setup")
  /\ hist = << >>
  /\ last = LastIs("init", None, None, 0)
  /\ \E overflow_checks \in BOOLEAN, size \in 1 .. POPULATION :
       world = InfectionWorld(overflow_checks, size)

\* A module that is not of basic-infection is added: its system, in the
\* Last phase, despawns entities.
AddDespawner ==
  /\ pc = "setup"
  /\ nmodules = 0
  /\ schedule' = Append(schedule, System("Last", "despawn", "none"))
  /\ nmodules' = 1
  /\ UNCHANGED << timeline, hist, last, control, rng, resources, created,
                  pc, round, todo, commands, synced, stats, world >>

\* The despawning system runs: it removes an entity, or finds nothing to do.
Despawn ==
  /\ InPhase
  /\ \E i \in todo :
       /\ schedule[i].name = "despawn"
       /\ NoPhaseSystem
       /\ todo' = todo \ {i}
       /\ stats' = [stats EXCEPT !.ran = @ \cup {i}]
  /\ \/ \E e \in DOMAIN world.entities :
          world' = [world EXCEPT
                      !.entities = [x \in DOMAIN world.entities \ {e} |->
                                      world.entities[x]]]
     \/ UNCHANGED world
  /\ UNCHANGED << timeline, hist, last, control, rng, resources, schedule,
                  nmodules, created, pc, round, commands, synced >>

\* schedule_recovery runs: for every entity added since it ran last and
\* Infected, it pushes the recovery at now() plus a delay sampled.
ScheduleRecovery ==
  /\ InPhase
  /\ \E i \in todo :
       /\ schedule[i].name = "schedule_recovery"
       /\ NoPhaseSystem
       /\ todo' = todo \ {i}
       /\ stats' = [stats EXCEPT !.ran = @ \cup {i}]
  /\ LET new == {e \in DOMAIN world.entities : world.entities[e].added}
         infected == {e \in new : world.entities[e].status = "Infected"}
     IN /\ created + Cardinality(infected) <= MaxEvents
        /\ \E d \in 0 .. MaxDelay :
             /\ infected # {} => TimelineNow(timeline) + d <= MaxTime
             /\ timeline' = PushRecoveries(timeline, infected,
                                           TimelineNow(timeline) + d, created)
        /\ created' = created + Cardinality(infected)
        /\ world' = [world EXCEPT
                       !.entities = [e \in DOMAIN world.entities |->
                                       [world.entities[e] EXCEPT !.added = FALSE]]]
  /\ UNCHANGED << hist, last, control, rng, resources, schedule, nmodules,
                  pc, round, commands, synced >>

\* track_population_changes runs: update_stats for every entity changed
\* since it ran last, then Finished when everybody has recovered.
TrackPopulationChanges ==
  /\ InPhase
  /\ \E i \in todo :
       /\ schedule[i].name = "track_population_changes"
       /\ NoPhaseSystem
       /\ todo' = todo \ {i}
       /\ LET changed == {e \in DOMAIN world.entities : world.entities[e].changed}
              t == TrackChanges([population |-> world.population,
                                 panicked |-> FALSE],
                                world.entities, changed, world.overflow_checks)
              p == t.population
              finished == ~t.panicked /\ p.recovered = Size(p)
          IN /\ world' = [world EXCEPT
                            !.population = p,
                            !.entities = [e \in DOMAIN world.entities |->
                                            [world.entities[e] EXCEPT !.changed = FALSE]],
                            !.panic = IF t.panicked
                                      THEN Some("attempt to subtract with overflow")
                                      ELSE @]
             /\ control' = IF finished THEN "Finished" ELSE control
             /\ pc' = IF t.panicked THEN "panicked" ELSE pc
             /\ stats' = [stats EXCEPT
                            !.ran = @ \cup {i},
                            !.writes = IF finished
                                       THEN @ \cup {<< "behavior", "Finished" >>}
                                       ELSE @]
  /\ UNCHANGED << timeline, hist, last, rng, resources, schedule, nmodules,
                  created, round, commands, synced >>

\* The sync point of the Normal phase: the deferred commands are applied;
\* a panic in a command unwinds out of schedule.run and of Model::run.
ApplyInfectionDeferred ==
  /\ pc = "Normal"
  /\ ~synced
  /\ NoPhaseSystem
  /\ \A i \in todo : schedule[i].name # "run_timeline_event"
  /\ (\E k \in 1 .. Len(commands) : commands[k].kind = "attempt_infection") =>
       (created < MaxEvents /\ world.spawned <= POPULATION)
  /\ \E low \in BOOLEAN, d \in 0 .. MaxDelay :
       LET w == ApplyInfectionCommands(
                  [timeline |-> timeline, control |-> control,
                   created |-> created, executed |-> stats.executed,
                   world |-> world, panicked |-> FALSE, rest |-> << >>],
                  commands, low, d)
       IN /\ timeline' = w.timeline
          /\ control' = w.control
          /\ created' = w.created
          /\ world' = w.world
          /\ stats' = [stats EXCEPT !.executed = w.executed]
          /\ hist' = hist \o
                       [k \in 1 .. Len(w.executed) - Len(stats.executed) |->
                          [command |-> w.executed[Len(stats.executed) + k].command]]
          /\ pc' = IF w.panicked THEN "panicked" ELSE pc
          /\ commands' = w.rest
  /\ synced' = TRUE
  /\ UNCHANGED << last, rng, resources, schedule, nmodules, round, todo >>

InfectionNext ==
  \/ AddDespawner
  \/ Run
  \/ PhaseSystem
  \/ Drain
  \/ ScheduleRecovery
  \/ TrackPopulationChanges
  \/ Despawn
  \/ ApplyInfectionDeferred
  \/ NextPhase
  \/ CheckControl

SpecInfection == InfectionInit /\ [][InfectionNext]_vars


(* ------- C24: a recovery whose entity is gone is fatal ------------------ *)

\* The index of the first command queued that recovers an entity that no
\* longer exists, 0 if there is none.
FirstMissing ==
  LET missing == {k \in 1 .. Len(commands) :
                    /\ commands[k].kind = "recover"
                    /\ commands[k].entity \notin DOMAIN world.entities}
  IN IF missing = {} THEN 0
     ELSE CHOOSE k \in missing : \A j \in missing : k <= j

\* The commands drained are applied.
FiresCommands == ~synced /\ synced'

\* C24: when the recovery of an entity that no longer exists fires, the run
\* is over in a fatal state: no status changes but by the commands that
\* fired before it, the commands behind it do not fire, no system of the
\* round runs and no Event is drained; and from the fatal state no step is
\* taken, so no later phase or round executes.
C24_MissingEntityIsFatal ==
  /\ [][(FiresCommands /\ FirstMissing # 0) =>
          /\ pc' = "panicked"
          /\ DOMAIN world'.entities = DOMAIN world.entities
          /\ \A e \in DOMAIN world.entities :
               world'.entities[e].status # world.entities[e].status =>
                 \E j \in 1 .. FirstMissing - 1 :
                   commands[j].kind = "recover" /\ commands[j].entity = e
          /\ Len(hist') = Len(hist) + FirstMissing - 1
          /\ stats'.ran = stats.ran
          /\ stats'.popped = stats.popped
          /\ round' = round]_vars
  /\ [][pc # "panicked"]_vars

\* An entity was infected, its recovery scheduled and drained after the
\* entity was despawned: the run is in the fatal state, the statuses of the
\* entities left are those of before, and the round did not go on.
C24_Witness ==
  /\ pc = "panicked"
  /\ synced
  /\ commands # << >>
  /\ Head(commands).kind = "recover"
  /\ Head(commands).entity \notin DOMAIN world.entities
  /\ Head(commands).entity <= world.spawned


(* ------- C31: the population total -------------------------------------- *)

\* The counters of the statistics, as the set of their values.
Counters(p) == {p.susceptible, p.infected, p.recovered}

C32_CountersAndSpawnsInRange ==
  nmodules = 0 =>
    /\ world.panic # Some("attempt to subtract with overflow")
    /\ \A c \in Counters(world.population) : c >= 0
    /\ world.spawned <= world.size


(* ------- C33: everybody infected recovers -------------------------------- *)

\* The recovery Events scheduled for an entity so far: those pending, those
\* drained and not yet applied, and those applied.
Recoveries(e) ==
  LET Is(c) == c.kind = "recover" /\ c.entity = e
  IN Cardinality({k \in 1 .. Len(timeline.event_queue) :
                    Is(timeline.event_queue[k].command)})
     + Cardinality({k \in 1 .. Len(commands) : Is(commands[k])})
     + Cardinality({k \in 1 .. Len(hist) : Is(hist[k].command)})

\* C33: when the loop of Model::run of basic-infection has stopped, every
\* entity spawned has had exactly one recovery Event scheduled and is
\* Recovered, whatever the order of the systems of the Normal phase was.
C33_EverybodyRecovers ==
  (nmodules = 0 /\ pc = "done") =>
    \A e \in DOMAIN world.entities :
      /\ Recoveries(e) = 1
      /\ world.entities[e].status = "Recovered"


(* ------- C34: no Event of basic-infection is pushed into the past ------- *)

\* The Events a step pushes: those pending after it that were not before.
PushedNow ==
  {timeline'.event_queue[k] : k \in 1 .. Len(timeline'.event_queue)}
    \ {timeline.event_queue[k] : k \in 1 .. Len(timeline.event_queue)}

\* C34: in a run of basic-infection every Event is pushed with a time that
\* is at least now() at the push, so that no pending Event is ever in the
\* past of now(), and now() never goes back.
C34_NoCausalityViolation ==
  /\ [](\A k \in 1 .. Len(timeline.event_queue) :
          timeline.event_queue[k].time >= TimelineNow(timeline))
  /\ [][/\ \A event \in PushedNow : event.time >= TimelineNow(timeline)
        /\ TimelineNow(timeline') >= TimelineNow(timeline)]_vars

\* now() has advanced with the attempt executed last, and a recovery is
\* pending at a time no push at now() = 0 can give: it was pushed after
\* now() advanced.
C34_Witness ==
  /\ TimelineNow(timeline) >= 1
  /\ \E k \in 1 .. Len(hist) : hist[k].command.kind = "attempt_infection"
  /\ \E k \in 1 .. Len(timeline.event_queue) :
       /\ timeline.event_queue[k].command.kind = "recover"
       /\ timeline.event_queue[k].time > MaxDelay

=============================================================================
